---- MODULE Spec2Model ----
(***************************************************************************)
(* Ingestion-and-dispatch runtime of signal-client:                        *)
(*   - MessageService.listen feeding the bounded dispatch queue, with the  *)
(*     FAIL_FAST / DROP_OLDEST backpressure policies and the DLQ hand-off  *)
(*     (runtime/listener.py);                                              *)
(*   - Worker.process_messages consuming the queue (runtime/worker_pool.py)*)
(*   - CircuitBreaker.guard (services/circuit_breaker.py);                 *)
(*   - RateLimiter.acquire (services/rate_limiter.py).                     *)
(* Each component has its own specification over the shared variables; the *)
(* variables of the other components keep their initial values.            *)
(***************************************************************************)
EXTENDS Integers, Sequences, FiniteSets, TLC

\* ------------------------------------------------------------------ bounds
MaxFrames == 3
MaxQueueSize == 2
NumWorkers == 2
MaxTime == 6
NumCallers == 2
MaxRequests == 4
FailureThreshold == 2
ResetTimeout == 2
MinRequestsForRateCalc == 3

MaxRateLimit == 2
Period == 2
NumAcquirers == 2
MaxCalls == 4
SleepSlack == 1

MaxSends == 2

\* payloads sent to the DLQ whose retries are followed to the end
MaxRetried == 1
MaxRetries == 2
MaxBackoff == 2
DlqMaxTime == 1

MaxCommands == 2

MaxMiddleware == 2
MaxDispatches == 2
\* pool: largest pool_size, start() calls per run
MaxPoolSize == 2
MaxStarts == 2
\* lock manager: tasks, nesting depth of lock scopes per task
NumLockTasks == 2
MaxNesting == 2

NumPqTasks == 2
MaxAppends == 3
MaxLength == 2

\* failure_rate_threshold = RateNum / RateDen
RateNum == 1
RateDen == 2

\* ------------------------------------------------------------- variables
VARIABLES
    \* listener.py: MessageService configuration (constructor arguments)
    policy,         \* _backpressure_policy
    hasDLQ,         \* _dead_letter_queue is not None
    queue_size,     \* asyncio.Queue(maxsize=queue_size)
    \* listener.py: MessageService.listen
    lpc,            \* position of listen(): recv, put, wait, dlq, done, raised
    lerr,           \* what listen() raised: none, transport, dlq
    cur,            \* the frame listen() is handling (0: none)
    attempt,        \* which queue.put the listener is blocked in (1 or 2)
    nrecv,          \* frames the transport has yielded so far (frames are 1..nrecv)
    \* asyncio.Queue shared by listener and workers
    queue,          \* _queue: the queued frames, oldest first
    unfinished,     \* _unfinished_tasks
    \* DLQ collaborator
    dlqCalls,       \* frames for which DeadLetterQueue.send was called, in order
    dlq,            \* frames DeadLetterQueue.send stored
    \* worker_pool.py: Worker.process_messages, one per worker
    wpc,            \* poll, proc, crashed
    witem,          \* the frame the worker holds (0: none)
    \* history of the run
    enq,            \* frames ever put on the queue
    timedOut,       \* frames whose first put timed out
    failedPut,      \* frames whose enqueue raised
    evicted,        \* frames the listener evicted under DROP_OLDEST
    taken,          \* frames workers dequeued, in dequeue order
    acks,           \* acks[f]: task_done calls made for frame f
    \* time.monotonic(), in ticks
    now,
    \* circuit_breaker.py: the EndpointState of one endpoint key
    cb,             \* state, failures, consecutive_failures, last_failure_time,
                    \* successes, requests
    cpc,            \* cpc[c]: caller c is outside guard ("idle") or in its body ("in")
    \* history of the breaker
    ev,             \* the last guard event: kind, caller, state and elapsed time
                    \* before it, whether the call was the trial, alone in flight
    snap,           \* the four counters right after the last state transition
    tripTime,       \* when the endpoint was last tripped
    streak,         \* failed calls in a row (no success in between)
    trial,          \* the caller admitted by OPEN -> HALF_OPEN, until it ends (0: none)
    trialAlone,     \* no other call was in flight at any time during the trial
    alsoAdmitted,   \* callers admitted while the trial call was running
    state_gauge,    \* CIRCUIT_BREAKER_STATE gauge of the endpoint, per state label
    state_listeners,\* the registered state listeners
    observed,       \* per listener, the states it was called with, in order
    \* rate_limiter.py: RateLimiter
    rate_limit,     \* rate_limit (constructor argument)
    timestamps,     \* _timestamps: the deque of grant times, oldest first
    lockHolder,     \* the acquirer holding _lock (0: free)
    lockWaiters,    \* the acquirers waiting for _lock, in arrival order
    rpc,            \* rpc[a]: idle, lockwait, check (top of the loop), sleep
    rwake,          \* rwake[a]: when a's asyncio.sleep is due
    \* history of the limiter
    grants,         \* the times at which acquire() granted a permit, in order
    rcalls,         \* acquire() calls made so far
    \* dead_letter_queue.py: DeadLetterQueue and its storage
    base_backoff,   \* _base_backoff_seconds
    storage,        \* the list stored under _queue_name, oldest first
    gauge,          \* DLQ_BACKLOG for this queue
    spc,            \* the sending task is outside send ("idle") or past its append
    nsent,          \* entries send() appended so far (payloads are 1..nsent)
    ppc,            \* position of replay(): idle, read, cleared, append, done
    messages,       \* replay(): what read_all returned
    current_time,   \* replay(): time.time() of the partition loop
    ready_messages, \* replay(): the entries to return
    messages_to_keep, \* replay(): the entries to store again
    kept,           \* replay(): entries of messages_to_keep stored again so far
    result,         \* what the last replay() returned
    \* history of the dead letter queue
    touched,        \* a send() appended since the running replay() read the store
    returned,       \* payloads some replay() returned as ready
    discarded,      \* payloads some replay() discarded
    sent,           \* the arguments and the outcome of the send() call in progress
    ready_count,    \* per payload, how many times replay() returned it as ready
    to_resend,      \* payload and retry_count of the entries replay() returned that
                    \* the caller has yet to re-send
    \* persistent_queue.py: PersistentQueue over its storage key
    pq_max_length,  \* the max_length argument of the constructor
    pq_store,       \* the stored list (what storage.read_all returns)
    pq_holder,      \* the task that holds self._lock (0: free)
    pq_lock_waiters,\* the tasks waiting for self._lock, oldest first
    pq_pc,          \* per task, where it is in append() or replay()
    pq_arg,         \* per task, the raw message of its append() call (0: replay)
    pq_todo,        \* _truncate_locked: the trimmed records still to append
    pq_appended,    \* every raw message handed to storage.append by append(), in order
    pq_result,      \* what the last replay() returned
    pq_ncalls,      \* number of append() calls made
    \* worker_pool_manager.py: WorkerPoolManager and the index its workers hold
    cmds,           \* the Command objects registered, in registration order
    commands,       \* _commands: literal trigger -> command (index into cmds)
    regex_commands, \* _regex_commands: (pattern, command) in registration order
    started,        \* start() was called
    sensitive_triggers,   \* _sensitive_triggers, as compiled by start()
    insensitive_triggers, \* _insensitive_triggers, as compiled by start()
    worker_regex,   \* Worker._regex_commands: the copy taken by start()
    text,           \* the text last given to _select_command
    selected,       \* what _select_command returned for it
    \* history of the router
    late,           \* a command was registered after start()
    \* worker_pool.py: one Worker dispatching a parsed message
    middleware,     \* Worker._middleware, in registration order
    xpc,            \* position of process(): idle, invoke, in, handler, back
    source,         \* context.message.source of the message being dispatched
    command,        \* what router.match returned for its text
    depth,          \* middleware entered and not yet returned; the index of the
                    \* next invoke()
    outcome,        \* how the last process() ended: no_text, no_command,
                    \* not_whitelisted, ok, failed (logged), none yet
    ndispatched,    \* process() calls made so far
    \* history of the dispatch
    entered,        \* the middleware entered for this message, in order
    calledNext,     \* the middleware that called next for this message
    handlerRuns,    \* times command.handle was invoked for this message
    handlerSaw,     \* Worker._middleware when command.handle was invoked
    shortCircuit,   \* the middleware that returned without calling next (0: none)
    chain,          \* self._middleware as it was when the dispatch in progress began
    \* bot.py: SignalClient.shutdown and what it signals
    closed,         \* WebSocketClient._stop is set: the transport yields no more
    sdpc,           \* position of shutdown(): off, closed, join, drained,
                    \* pooljoin, release, done, raised
    stopped,        \* Worker._stop is set (WorkerPool.stop sets every worker's)
    \* history of the shutdown
    steps,          \* the steps shutdown() has performed, in order
    \* runtime/worker_pool.py WorkerPool and services/worker_pool_manager.py
    \* WorkerPoolManager: one pool object of either class
    pool_class,     \* "WorkerPool" or "WorkerPoolManager"
    pool_size,      \* _pool_size
    pool_middleware,\* _middleware, in registration order
    middleware_ids, \* _middleware_ids
    pool_workers,   \* _workers: for each Worker its _middleware list and _stop
    pool_tasks,     \* len(_tasks)
    pstarted,       \* _started is set
    nstarts,        \* start() calls made so far
    \* lock_manager.py: LockManager
    locks,          \* locks[r]: asyncio.Lock objects created for resource r
    res_locked,     \* res_locked[r]: _locked of the lock of r
    res_waiters,    \* res_waiters[r]: the tasks in _waiters of the lock of r
    res_woken,      \* res_woken[r]: release() resolved the first waiter's future
    holders,        \* _holders[r] (0: no entry)
    kpc,            \* kpc[t]: task t runs ("run") or waits in acquire ("wait")
    held,           \* held[t]: the resources whose scope t is inside, outermost first
    want,           \* want[t]: the resource t waits for (0: none)
    \* history of the lock manager
    handed,         \* tasks that entered a scope after waiting for it
    warned,         \* tasks that got the self-reentry warning
    exitedByRaise,  \* resources whose scope was left by an exception
    keyErrors       \* del self._holders[r] found no entry

lvars == <<policy, hasDLQ, queue_size, lpc, lerr, cur, attempt, nrecv, queue,
           unfinished, dlqCalls, dlq, wpc, witem, enq, timedOut, failedPut,
           evicted, taken, acks>>

bvars == <<cb, cpc, ev, snap, tripTime, streak, trial, trialAlone, alsoAdmitted,
          state_gauge, state_listeners, observed>>

rvars == <<rate_limit, timestamps, lockHolder, lockWaiters, rpc, rwake, grants,
           rcalls>>

dvars == <<base_backoff, storage, gauge, spc, nsent, ppc, messages, current_time,
           ready_messages, messages_to_keep, kept, result, touched, returned,
           discarded>>

mvars == <<cmds, commands, regex_commands, started, sensitive_triggers,
           insensitive_triggers, worker_regex, text, selected, late>>

xvars == <<middleware, xpc, source, command, depth, outcome, ndispatched, entered,
           calledNext, handlerRuns, handlerSaw, shortCircuit, chain>>

svars == <<closed, sdpc, stopped, steps>>

pvars == <<pool_class, pool_size, pool_middleware, middleware_ids, pool_workers,
           pool_tasks, pstarted, nstarts>>

kvars == <<locks, res_locked, res_waiters, res_woken, holders, kpc, held, want,
           handed, warned, exitedByRaise, keyErrors>>

\* what the claims on send() and on the retry loop record
dxvars == <<sent, ready_count, to_resend>>

qvars == <<pq_max_length, pq_store, pq_holder, pq_lock_waiters, pq_pc, pq_arg, pq_todo,
           pq_appended, pq_result, pq_ncalls>>

\* what the persistent queue never touches
notPq == <<lvars, bvars, rvars, dvars, mvars, xvars, svars, pvars, kvars, dxvars>>

vars == <<lvars, now, bvars, rvars, dvars, mvars, xvars, svars, pvars, kvars, dxvars, qvars>>

\* what the listener and the workers never touch
notListener == <<now, bvars, rvars, dvars, mvars, xvars, svars, pvars, kvars, dxvars, qvars>>

\* what the circuit breaker never touches
notBreaker == <<lvars, rvars, dvars, mvars, xvars, svars, pvars, kvars, dxvars, qvars>>

\* what the rate limiter never touches
notLimiter == <<lvars, bvars, dvars, mvars, xvars, svars, pvars, kvars, dxvars, qvars>>

\* what the dead letter queue never touches
notDlq == <<lvars, bvars, rvars, mvars, xvars, svars, pvars, kvars, qvars>>

\* what the command index never touches
notRouter == <<lvars, bvars, rvars, dvars, xvars, svars, pvars, kvars, dxvars, qvars>>

\* what the shutdown, with the listener and the workers, never touches
notShutdown == <<now, bvars, rvars, dvars, mvars, xvars, pvars, kvars, dxvars, qvars>>

\* what a pool's start, stop and register_middleware never touch
notPool == <<lvars, bvars, rvars, dvars, mvars, xvars, svars, kvars, dxvars, qvars>>

\* what the lock manager never touches
notLock == <<lvars, bvars, rvars, dvars, mvars, xvars, svars, pvars, dxvars, qvars>>

\* what a dispatch never touches
notDispatch == <<lvars, bvars, rvars, dvars, mvars, svars, pvars, kvars, dxvars, qvars>>

Acquirers == 1..NumAcquirers

Callers == 1..NumCallers

BreakerStates == {"CLOSED", "OPEN", "HALF_OPEN"}

StateListeners == {1}

Frames == 1..MaxFrames
Workers == 1..NumWorkers

\* ------------------------------------------------------------- helpers
Last(s) == s[Len(s)]

Count(s, x) == Cardinality({i \in DOMAIN s : s[i] = x})

Range(s) == {s[i] : i \in DOMAIN s}

Increasing(s) == \A i, j \in DOMAIN s : i < j => s[i] < s[j]

\* ---------------------------------------------------- asyncio.Queue model
\* Queue.full(): maxsize > 0 and qsize() >= maxsize
Full(q) == Len(q) >= queue_size

\* a queue that puts the new item at the head
EnqueueAtHead(q, f) == <<f>> \o q

\* Queue.put_nowait -> _put: append at the tail
Enqueue(q, f) == Append(q, f)

\* ------------------------------------------------- listener.py operators
\* a handler that never looks at the policy: it always drops the oldest
HandleEnqueueTimeoutAnyPolicy(q, f) ==
    IF q = <<>>
    THEN [kind |-> "failed", q |-> q, ev |-> 0]
    ELSE [kind |-> "enqueued", q |-> Enqueue(Tail(q), f), ev |-> Head(q)]

\* a handler that evicts the oldest item and then gives up without the retry
HandleEnqueueTimeoutNoRetry(q, f) ==
    IF policy = "FAIL_FAST" \/ q = <<>>
    THEN [kind |-> "failed", q |-> q, ev |-> 0]
    ELSE [kind |-> "failed", q |-> Tail(q), ev |-> Head(q)]

\* MessageService._handle_enqueue_timeout: what the listener does when the put
\* of frame f on queue q timed out. kind is "enqueued" (returns True), "failed"
\* (returns False) or "wait" (blocked in the second put); ev is the evicted
\* frame (0: none).
HandleEnqueueTimeout(q, f) ==
    IF policy = "FAIL_FAST"
    THEN [kind |-> "failed", q |-> q, ev |-> 0]
    ELSE IF q = <<>>
    THEN [kind |-> "failed", q |-> q, ev |-> 0]
    ELSE IF ~Full(Tail(q))
    THEN [kind |-> "enqueued", q |-> Enqueue(Tail(q), f), ev |-> Head(q)]
    ELSE [kind |-> "wait", q |-> Tail(q), ev |-> Head(q)]

\* listen(), lines 59-71: where listen() goes once a frame was not enqueued
AfterNotEnqueued == IF hasDLQ THEN "dlq" ELSE "recv"

\* ---------------------------------------------- worker_pool.py operators
\* What can happen to one dequeued item in Worker.process_messages / process.
Outcomes == {"handled", "no_message", "unsupported", "decode_error",
             "handler_error", "parser_error", "context_error", "router_error"}

\* The exception (if any) of outcome o leaves process_messages: it is caught
\* neither by the handlers at lines 80-89 nor by process() at line 123, and the
\* outer handler at line 94 takes asyncio.TimeoutError only.
Propagates(o) == o \in {"parser_error", "context_error", "router_error"}

\* task_done after the try statement instead of in its finally block
WorkerAcksUnlessRaised(o) == ~Propagates(o)

\* The finally block at lines 90-93 runs task_done for every outcome.
WorkerAcks(o) == TRUE

\* Queue.join() returns when _unfinished_tasks is zero (bot.py shutdown, step 2)
JoinReturns == unfinished = 0

\* ------------------------------------------------------------------ Init
ListenerInit ==
    /\ policy \in {"FAIL_FAST", "DROP_OLDEST"}
    /\ hasDLQ \in BOOLEAN
    /\ queue_size \in 1..MaxQueueSize
    /\ lpc = "recv"
    /\ lerr = "none"
    /\ cur = 0
    /\ attempt = 1
    /\ nrecv = 0
    /\ queue = <<>>
    /\ unfinished = 0
    /\ dlqCalls = <<>>
    /\ dlq = <<>>
    /\ wpc = [w \in Workers |-> "poll"]
    /\ witem = [w \in Workers |-> 0]
    /\ enq = {}
    /\ timedOut = {}
    /\ failedPut = {}
    /\ evicted = {}
    /\ taken = <<>>
    /\ acks = [f \in Frames |-> 0]

ZeroCounters == [requests |-> 0, failures |-> 0, consecutive_failures |-> 0,
                 successes |-> 0]

Counters(s) == [requests |-> s.requests, failures |-> s.failures,
                consecutive_failures |-> s.consecutive_failures,
                successes |-> s.successes]

NoEvent == [kind |-> "none", c |-> 0, pre |-> "CLOSED", elapsed |-> 0,
            wasTrial |-> FALSE, alone |-> FALSE, raised |-> "none"]

\* EndpointState() defaults, every caller outside guard
BreakerInit ==
    /\ cb = [state |-> "CLOSED", failures |-> 0, consecutive_failures |-> 0,
             last_failure_time |-> 0, successes |-> 0, requests |-> 0]
    /\ cpc = [c \in Callers |-> "idle"]
    /\ ev = NoEvent
    /\ snap = ZeroCounters
    /\ tripTime = 0
    /\ streak = 0
    /\ trial = 0
    /\ trialAlone = FALSE
    /\ alsoAdmitted = {}
    /\ state_gauge = [k \in BreakerStates |-> 0]
    /\ state_listeners = {}
    /\ observed = [l \in StateListeners |-> <<>>]

\* --------------------------------------------------------- listener actions
\* async for raw_message in self._websocket_client.listen(): the next frame
ListenerReceive ==
    /\ lpc = "recv"
    /\ nrecv < MaxFrames
    /\ nrecv' = nrecv + 1
    /\ cur' = nrecv + 1
    /\ attempt' = 1
    /\ lpc' = "put"
    /\ UNCHANGED <<policy, hasDLQ, queue_size, lerr, queue, unfinished, dlqCalls,
                   dlq, wpc, witem, enq, timedOut, failedPut, evicted, taken, acks>>
    /\ UNCHANGED notListener

\* the put of the current frame completes: the queue has room
PutCompletes ==
    /\ ~Full(queue)
    /\ queue' = Enqueue(queue, cur)
    /\ unfinished' = unfinished + 1
    /\ enq' = enq \cup {cur}
    /\ cur' = 0
    /\ attempt' = 1
    /\ lpc' = "recv"
    /\ UNCHANGED <<policy, hasDLQ, queue_size, lerr, nrecv, dlqCalls, dlq, wpc,
                   witem, timedOut, failedPut, evicted, taken, acks>>
    /\ UNCHANGED notListener

\* _enqueue_with_backpressure, lines 74-78: queue.put under wait_for
ListenerPut ==
    /\ lpc = "put"
    /\ IF Full(queue)
       THEN /\ lpc' = "wait"
            /\ UNCHANGED <<policy, hasDLQ, queue_size, lerr, cur, attempt, nrecv,
                           queue, unfinished, dlqCalls, dlq, wpc, witem, enq,
                           timedOut, failedPut, evicted, taken, acks>>
            /\ UNCHANGED notListener
       ELSE PutCompletes

\* a consumer made room: the blocked put is woken and completes
ListenerPutWakes ==
    /\ lpc = "wait"
    /\ PutCompletes

\* asyncio.TimeoutError out of wait_for(queue.put(...)): lines 79-80 and 83-115
ListenerPutTimeout ==
    /\ lpc = "wait"
    /\ IF attempt = 1
       THEN LET r == HandleEnqueueTimeout(queue, cur) IN
            /\ timedOut' = timedOut \cup {cur}
            /\ queue' = r.q
            /\ evicted' = IF r.ev = 0 THEN evicted ELSE evicted \cup {r.ev}
            /\ acks' = IF r.ev = 0 THEN acks ELSE [acks EXCEPT ![r.ev] = @ + 1]
            /\ unfinished' = unfinished - (IF r.ev = 0 THEN 0 ELSE 1)
                                        + (IF r.kind = "enqueued" THEN 1 ELSE 0)
            /\ enq' = IF r.kind = "enqueued" THEN enq \cup {cur} ELSE enq
            /\ lpc' = CASE r.kind = "enqueued" -> "recv"
                        [] r.kind = "wait" -> "wait"
                        [] OTHER -> AfterNotEnqueued
            /\ attempt' = IF r.kind = "wait" THEN 2 ELSE 1
            /\ cur' = IF lpc' = "recv" THEN 0 ELSE cur
       ELSE \* the second put timed out too: lines 105-112, return False
            /\ lpc' = AfterNotEnqueued
            /\ attempt' = 1
            /\ cur' = IF lpc' = "recv" THEN 0 ELSE cur
            /\ UNCHANGED <<timedOut, queue, evicted, acks, unfinished, enq>>
    /\ UNCHANGED <<policy, hasDLQ, queue_size, lerr, nrecv, dlqCalls, dlq, wpc,
                   witem, failedPut, taken>>
    /\ UNCHANGED notListener

\* listen(), lines 55-57: the enqueue raised; logged, enqueued = False
ListenerEnqueueError ==
    /\ lpc \in {"put", "wait"}
    /\ failedPut' = failedPut \cup {cur}
    /\ lpc' = AfterNotEnqueued
    /\ attempt' = 1
    /\ cur' = IF lpc' = "recv" THEN 0 ELSE cur
    /\ UNCHANGED <<policy, hasDLQ, queue_size, lerr, nrecv, queue, unfinished,
                   dlqCalls, dlq, wpc, witem, enq, timedOut, evicted, taken, acks>>
    /\ UNCHANGED notListener

\* listen(), lines 69-71: await self._dead_letter_queue.send(parsed_message)
ListenerDlqSend ==
    /\ lpc = "dlq"
    /\ dlqCalls' = Append(dlqCalls, cur)
    /\ dlq' = Append(dlq, cur)
    /\ cur' = 0
    /\ lpc' = "recv"
    /\ UNCHANGED <<policy, hasDLQ, queue_size, lerr, attempt, nrecv, queue,
                   unfinished, wpc, witem, enq, timedOut, failedPut, evicted,
                   taken, acks>>
    /\ UNCHANGED notListener

\* the same call when the DLQ's storage fails: send raises, and nothing in
\* listen() catches it
ListenerDlqSendFails ==
    /\ lpc = "dlq"
    /\ dlqCalls' = Append(dlqCalls, cur)
    /\ cur' = 0
    /\ lpc' = "raised"
    /\ lerr' = "dlq"
    /\ UNCHANGED <<policy, hasDLQ, queue_size, attempt, nrecv, queue, unfinished,
                   dlq, wpc, witem, enq, timedOut, failedPut, evicted, taken, acks>>
    /\ UNCHANGED notListener

\* the transport's stream ends: the async for loop and listen() return
TransportEnds ==
    /\ lpc = "recv"
    /\ lpc' = "done"
    /\ UNCHANGED <<policy, hasDLQ, queue_size, lerr, cur, attempt, nrecv, queue,
                   unfinished, dlqCalls, dlq, wpc, witem, enq, timedOut,
                   failedPut, evicted, taken, acks>>
    /\ UNCHANGED notListener

\* the transport fails fatally: the exception leaves listen()
TransportFails ==
    /\ lpc = "recv"
    /\ lpc' = "raised"
    /\ lerr' = "transport"
    /\ UNCHANGED <<policy, hasDLQ, queue_size, cur, attempt, nrecv, queue,
                   unfinished, dlqCalls, dlq, wpc, witem, enq, timedOut,
                   failedPut, evicted, taken, acks>>
    /\ UNCHANGED notListener

\* ----------------------------------------------------------- worker actions
\* process_messages, line 60: queue.get() returns the oldest item
WorkerGet(w) ==
    /\ wpc[w] = "poll"
    /\ queue /= <<>>
    /\ witem' = [witem EXCEPT ![w] = Head(queue)]
    /\ queue' = Tail(queue)
    /\ taken' = Append(taken, Head(queue))
    /\ wpc' = [wpc EXCEPT ![w] = "proc"]
    /\ UNCHANGED <<policy, hasDLQ, queue_size, lpc, lerr, cur, attempt, nrecv,
                   unfinished, dlqCalls, dlq, enq, timedOut, failedPut, evicted,
                   acks>>
    /\ UNCHANGED notListener

\* process_messages, lines 61-95: parse, process, and the finally block
WorkerFinish(w, o) ==
    /\ wpc[w] = "proc"
    /\ unfinished' = IF WorkerAcks(o) THEN unfinished - 1 ELSE unfinished
    /\ acks' = IF WorkerAcks(o) THEN [acks EXCEPT ![witem[w]] = @ + 1] ELSE acks
    /\ witem' = [witem EXCEPT ![w] = 0]
    /\ wpc' = [wpc EXCEPT ![w] = IF Propagates(o) THEN "crashed" ELSE "poll"]
    /\ UNCHANGED <<policy, hasDLQ, queue_size, lpc, lerr, cur, attempt, nrecv,
                   queue, dlqCalls, dlq, enq, timedOut, failedPut, evicted, taken>>
    /\ UNCHANGED notListener

\* RateLimiter.__init__
LimiterInit ==
    /\ rate_limit \in 1..MaxRateLimit
    /\ timestamps = <<>>
    /\ lockHolder = 0
    /\ lockWaiters = <<>>
    /\ rpc = [a \in Acquirers |-> "idle"]
    /\ rwake = [a \in Acquirers |-> 0]
    /\ grants = <<>>
    /\ rcalls = 0

\* the rate limiter, not used
LimiterIdle ==
    /\ LimiterInit
    /\ rate_limit = 1

\* ------------------------------------------------ dead_letter_queue.py model
\* next_retry_at argument of send(): None
NoRetryAt == -1

Min2(a, b) == IF a <= b THEN a ELSE b

Max2(a, b) == IF a >= b THEN a ELSE b

\* ------------------------------------------------ persistent_queue.py model
PqTasks == 1..NumPqTasks

\* __init__, line 51: self._max_length
EffectiveMaxLength == Max2(1, pq_max_length)

TrimmedOldest(records, n) == SubSeq(records, 1, n)

\* _truncate_locked, line 119: records[-self._max_length:]
Trimmed(records, n) == SubSeq(records, Len(records) - n + 1, Len(records))

\* PersistentQueue.__init__ over an empty store, for a given max_length
PqEmpty ==
    /\ pq_store = <<>>
    /\ pq_holder = 0
    /\ pq_lock_waiters = <<>>
    /\ pq_pc = [t \in PqTasks |-> "idle"]
    /\ pq_arg = [t \in PqTasks |-> 0]
    /\ pq_todo = <<>>
    /\ pq_appended = <<>>
    /\ pq_result = <<>>
    /\ pq_ncalls = 0

PqInit ==
    /\ pq_max_length \in 0..MaxLength
    /\ PqEmpty

\* the persistent queue, not used
PqIdle ==
    /\ pq_max_length = 1
    /\ PqEmpty

\* __init__, line 29: self._base_backoff_seconds
BaseBackoffSeconds == Max2(0, base_backoff)

\* __init__, lines 30-32: self._max_backoff_seconds
MaxBackoffSeconds == Max2(BaseBackoffSeconds, MaxBackoff)

ComputeNextRetryAtUncapped(retry_count, t) ==
    t + BaseBackoffSeconds * (2 ^ retry_count)

\* _compute_next_retry_at, called at time t
ComputeNextRetryAt(retry_count, t) ==
    t + Min2(BaseBackoffSeconds * (2 ^ retry_count), MaxBackoffSeconds)

\* no send() call is in progress
NoSend == [retry_count |-> 0, next_retry_at |-> NoRetryAt, raised |-> "idle"]

\* the entry send() builds
DlqMessage(m, retry_count, next_retry_at, t) ==
    [message |-> m, retry_count |-> retry_count,
     next_retry_at |-> IF next_retry_at /= NoRetryAt THEN next_retry_at
                       ELSE ComputeNextRetryAt(retry_count, t)]

\* the base_backoff_seconds and retry_count arguments tried
BaseBackoffs == {0, 1}

\* base_backoff_seconds arguments below zero and above max_backoff_seconds too
BaseBackoffInputs == {-1, 0, 1, MaxBackoff + 1}

RetryCounts == {0, MaxRetries - 1, MaxRetries}

ExhaustedStrict(e) == e.retry_count > MaxRetries

\* replay(): the three classes of the partition loop
Exhausted(e) == e.retry_count >= MaxRetries

Due(e, t) == e.next_retry_at <= t

DiscardedOf(msgs) == {msgs[i].message : i \in {j \in DOMAIN msgs : Exhausted(msgs[j])}}

RetriedSameCount(e, t) ==
    [message |-> e.message, retry_count |-> e.retry_count,
     next_retry_at |-> ComputeNextRetryAt(e.retry_count + 1, t)]

\* replay(), lines 86-95: the entry handed back for a due one
Retried(e, t) ==
    [message |-> e.message, retry_count |-> e.retry_count + 1,
     next_retry_at |-> ComputeNextRetryAt(e.retry_count + 1, t)]

ReadyOf(msgs, t) ==
    LET sel == SelectSeq(msgs, LAMBDA e : ~Exhausted(e) /\ Due(e, t))
    IN  [i \in DOMAIN sel |-> Retried(sel[i], t)]

KeepOfCounted(msgs, t) ==
    LET sel == SelectSeq(msgs, LAMBDA e : ~Exhausted(e) /\ ~Due(e, t))
    IN  [i \in DOMAIN sel |-> [sel[i] EXCEPT !.retry_count = @ + 1]]

KeepOf(msgs, t) == SelectSeq(msgs, LAMBDA e : ~Exhausted(e) /\ ~Due(e, t))

MessagesOf(msgs) == {msgs[i].message : i \in DOMAIN msgs}

\* the payloads of the send() calls made: the k-th call sends payload k
Payloads == 1..MaxSends

\* an empty store, no send() and no replay() in progress
DlqEmpty ==
    /\ storage = <<>>
    /\ gauge = 0
    /\ spc = "idle"
    /\ nsent = 0
    /\ ppc = "idle"
    /\ messages = <<>>
    /\ current_time = 0
    /\ ready_messages = <<>>
    /\ messages_to_keep = <<>>
    /\ kept = 0
    /\ result = <<>>
    /\ touched = FALSE
    /\ returned = {}
    /\ discarded = {}
    /\ sent = NoSend
    /\ ready_count = [p \in Payloads |-> 0]
    /\ to_resend = {}

\* DeadLetterQueue.__init__ over an empty store
DlqInit ==
    /\ base_backoff \in BaseBackoffs
    /\ DlqEmpty

\* the dead letter queue, not used
DlqIdle ==
    /\ DlqInit
    /\ base_backoff = 0

\* ---------------------------------------------- worker_pool_manager.py model
\* Strings are sequences of code points: 80 is "P", 112 is "p", 113 is "q".
\* the literal triggers and regex patterns tried (a pattern is a literal text,
\* found by pattern.search anywhere in the message text)
Triggers == {<<80>>, <<112>>, <<112, 113>>, <<113>>}

\* the message texts tried
Texts == {<<80>>, <<112>>, <<112, 113>>, <<80, 113>>, <<113, 112>>, <<113, 80>>}

CommandKinds == {"insensitive", "sensitive", "regex"}

\* str.lower() of one code point / of a string (re.IGNORECASE)
Lower(c) == IF c \in 65..90 THEN c + 32 ELSE c

Fold(s) == [i \in DOMAIN s |-> Lower(s[i])]

\* a < b for str: the order sorted() uses
StrLess(a, b) ==
    \E k \in 1..(Min2(Len(a), Len(b)) + 1) :
        /\ \A j \in 1..(k - 1) : a[j] = b[j]
        /\ \/ k > Len(a) /\ k <= Len(b)
           \/ k <= Len(a) /\ k <= Len(b) /\ a[k] < b[k]

\* sorted(S) for a set of distinct strings
Sorted(S) ==
    CHOOSE s \in [1..Cardinality(S) -> S] :
        \A i, j \in 1..Cardinality(S) : i < j => StrLess(s[i], s[j])

\* _compile_triggers, lines 258-268: the literal triggers of one case class
CompileTriggers(sensitive) ==
    Sorted({t \in DOMAIN commands : cmds[commands[t]].case_sensitive = sensitive})

\* pattern.match(text) for one escaped literal: the text starts with it
StartsWith(x, t) == Len(t) <= Len(x) /\ \A i \in 1..Len(t) : t[i] = x[i]

\* match.lastindex of "(t1)|(t2)|...".match(text): the first alternative that
\* matches; 0 when the pattern is None or nothing matches
LastIndex(triggers, x, ignorecase) ==
    LET M == {i \in DOMAIN triggers :
                 IF ignorecase THEN StartsWith(Fold(x), Fold(triggers[i]))
                 ELSE StartsWith(x, triggers[i])}
    IN  IF M = {} THEN 0 ELSE CHOOSE i \in M : \A j \in M : i <= j

\* pattern.search(text)
Search(p, x) ==
    \E k \in 0..(Len(x) - Len(p)) : \A i \in 1..Len(p) : x[k + i] = p[i]

NoCommand == [command |-> 0, trigger |-> <<>>]

\* the regex branch of _select_command, lines 158-162
SelectRegex(x) ==
    LET M == {i \in DOMAIN worker_regex : Search(worker_regex[i].pattern, x)}
    IN  IF M = {} THEN NoCommand
        ELSE LET i == CHOOSE k \in M : \A j \in M : k <= j
             IN  [command |-> worker_regex[i].command,
                  trigger |-> worker_regex[i].pattern]

SelectCommandSensitiveFirst(x) ==
    LET ins == LastIndex(insensitive_triggers, x, TRUE)
        sen == LastIndex(sensitive_triggers, x, FALSE)
    IN  IF sen > 0
        THEN [command |-> commands[sensitive_triggers[sen]],
              trigger |-> sensitive_triggers[sen]]
        ELSE IF ins > 0
        THEN [command |-> commands[insensitive_triggers[ins]],
              trigger |-> insensitive_triggers[ins]]
        ELSE SelectRegex(x)

\* Worker._select_command
SelectCommand(x) ==
    LET ins == LastIndex(insensitive_triggers, x, TRUE)
        sen == LastIndex(sensitive_triggers, x, FALSE)
    IN  IF ins > 0
        THEN [command |-> commands[insensitive_triggers[ins]],
              trigger |-> insensitive_triggers[ins]]
        ELSE IF sen > 0
        THEN [command |-> commands[sensitive_triggers[sen]],
              trigger |-> sensitive_triggers[sen]]
        ELSE SelectRegex(x)

\* commands[trigger] = command on a dict
DictSet(d, k, v) == [x \in DOMAIN d \cup {k} |-> IF x = k THEN v ELSE d[x]]

\* WorkerPoolManager.__init__
RouterInit ==
    /\ cmds = <<>>
    /\ commands = <<>>
    /\ regex_commands = <<>>
    /\ started = FALSE
    /\ sensitive_triggers = <<>>
    /\ insensitive_triggers = <<>>
    /\ worker_regex = <<>>
    /\ text = <<>>
    /\ selected = NoCommand
    /\ late = FALSE

\* ------------------------------------ worker_pool.py: Worker.process model
\* message.source values and middleware callables
SenderIds == {1, 2}

MiddlewareIds == 1..MaxMiddleware

\* what router.match(text) returned: no command, or a Command with its
\* whitelisted list and its handle (None or a coroutine function)
NoMatch == [matched |-> FALSE, whitelisted |-> {}, handle |-> FALSE]

MatchResults ==
    {NoMatch} \cup {[matched |-> TRUE, whitelisted |-> W, handle |-> h] :
                        W \in SUBSET SenderIds, h \in BOOLEAN}

IsWhitelistedAlways(c, src) == TRUE

\* Worker._is_whitelisted
IsWhitelisted(c, src) ==
    IF c.whitelisted = {} THEN TRUE ELSE src \in c.whitelisted

IsTerminalEarly(index) == index + 1 >= Len(middleware)

\* invoke(), line 150: index >= len(self._middleware)
IsTerminal(index) == index >= Len(middleware)

\* Worker.__init__ with no middleware registered, nothing dispatched
DispatchInit ==
    /\ middleware = <<>>
    /\ xpc = "idle"
    /\ source = 0
    /\ command = NoMatch
    /\ depth = 0
    /\ outcome = "none"
    /\ ndispatched = 0
    /\ entered = <<>>
    /\ calledNext = {}
    /\ handlerRuns = 0
    /\ handlerSaw = <<>>
    /\ shortCircuit = 0
    /\ chain = <<>>

\* a pool just constructed; no start() call is made on it
PoolIdle ==
    /\ pool_class = "WorkerPool"
    /\ pool_size = 0
    /\ pool_middleware = <<>>
    /\ middleware_ids = {}
    /\ pool_workers = <<>>
    /\ pool_tasks = 0
    /\ pstarted = FALSE
    /\ nstarts = 0

LockTasks == 1..NumLockTasks

\* resource ids
Resources == {1, 2}

\* LockManager(): no lock, no holder; no task inside or waiting
LockInit ==
    /\ locks = [r \in Resources |-> 0]
    /\ res_locked = [r \in Resources |-> FALSE]
    /\ res_waiters = [r \in Resources |-> <<>>]
    /\ res_woken = [r \in Resources |-> FALSE]
    /\ holders = [r \in Resources |-> 0]
    /\ kpc = [t \in LockTasks |-> "run"]
    /\ held = [t \in LockTasks |-> <<>>]
    /\ want = [t \in LockTasks |-> 0]
    /\ handed = {}
    /\ warned = {}
    /\ exitedByRaise = {}
    /\ keyErrors = FALSE

\* shutdown() has not been called
ShutdownIdle ==
    /\ closed = FALSE
    /\ sdpc = "off"
    /\ stopped = FALSE
    /\ steps = <<>>

InitListener ==
    /\ ListenerInit
    /\ now = 0
    /\ BreakerInit
    /\ LimiterIdle
    /\ DlqIdle
    /\ RouterInit
    /\ DispatchInit
    /\ ShutdownIdle
    /\ PoolIdle
    /\ LockInit
    /\ PqIdle

ListenerNext ==
    \/ ListenerReceive
    \/ ListenerPut
    \/ ListenerPutWakes
    \/ ListenerPutTimeout
    \/ ListenerEnqueueError
    \/ ListenerDlqSend
    \/ ListenerDlqSendFails
    \/ TransportEnds
    \/ TransportFails
    \/ \E w \in Workers : WorkerGet(w)
    \/ \E w \in Workers, o \in Outcomes : WorkerFinish(w, o)

SpecListener == InitListener /\ [][ListenerNext]_vars

\* ------------------------------------------------- circuit_breaker.py model
\* time passes
BreakerTick ==
    /\ now < MaxTime
    /\ now' = now + 1
    /\ UNCHANGED <<lvars, bvars, rvars, dvars, mvars, xvars, svars, pvars, kvars, dxvars, qvars>>

\* guard, lines 54-64, for endpoint state s at time t: "reject" (raise
\* ConnectionAbortedError), "half_open" (OPEN -> HALF_OPEN, go on) or "pass"
AdmitReversed(s, t) ==
    IF s.state = "OPEN"
    THEN IF t - s.last_failure_time < ResetTimeout THEN "half_open" ELSE "reject"
    ELSE "pass"

Admit(s, t) ==
    IF s.state = "OPEN"
    THEN IF t - s.last_failure_time > ResetTimeout THEN "half_open" ELSE "reject"
    ELSE "pass"

\* guard, lines 72-80: failures / requests is reached, by the short-circuit
\* order of the condition, with requests = 0
DividesByZero(s) ==
    /\ s.state /= "HALF_OPEN"
    /\ s.consecutive_failures < FailureThreshold
    /\ s.requests >= MinRequestsForRateCalc
    /\ s.requests = 0

ShouldTripStrict(s) ==
    \/ s.state = "HALF_OPEN"
    \/ s.consecutive_failures > FailureThreshold
    \/ /\ s.requests >= MinRequestsForRateCalc
       /\ s.failures * RateDen >= RateNum * s.requests

\* guard, lines 72-80: the trip condition, on the counters after the increments
ShouldTrip(s) ==
    \/ s.state = "HALF_OPEN"
    \/ s.consecutive_failures >= FailureThreshold
    \/ /\ s.requests >= MinRequestsForRateCalc
       /\ s.failures * RateDen >= RateNum * s.requests

\* _trip, lines 89-95
Trip(s, t) ==
    [state |-> "OPEN", last_failure_time |-> t, failures |-> 0,
     consecutive_failures |-> 0, successes |-> 0, requests |-> 0]

\* _reset, lines 101-106
Reset(s) ==
    [s EXCEPT !.state = "CLOSED", !.failures = 0, !.consecutive_failures = 0,
              !.successes = 0, !.requests = 0]

\* guard, lines 69-82: the body raised
OnFailure(s, t) ==
    LET s1 == [s EXCEPT !.failures = @ + 1, !.consecutive_failures = @ + 1]
    IN  IF DividesByZero(s1) THEN s1
        ELSE IF ShouldTrip(s1) THEN Trip(s1, t) ELSE s1

\* guard, line 82: the bare raise re-raises the exception of the body, unless
\* the trip condition itself raised
RaisedBy(s) ==
    LET s1 == [s EXCEPT !.failures = @ + 1, !.consecutive_failures = @ + 1]
    IN  IF DividesByZero(s1) THEN "ZeroDivisionError" ELSE "original"

\* guard, lines 83-87: the body returned
OnSuccess(s) ==
    LET s1 == [s EXCEPT !.successes = @ + 1, !.consecutive_failures = 0]
    IN  IF s1.state = "HALF_OPEN" THEN Reset(s1) ELSE s1

InFlight == {c \in Callers : cpc[c] = "in"}

RecordStateSetOnly(g, st) == [g EXCEPT ![st] = 1]

\* _record_state, lines 112-118: 1 for the given state, 0 for the other two
RecordState(g, st) == [k \in DOMAIN g |-> IF k = st THEN 1 ELSE 0]

\* a transition calls every registered state listener with the new state
NotifyListeners(obs, st) ==
    [l \in StateListeners |-> IF l \in state_listeners THEN Append(obs[l], st)
                                                      ELSE obs[l]]

\* breaker.register_state_listener(listener)
RegisterStateListener(l) ==
    /\ l \notin state_listeners
    /\ state_listeners' = state_listeners \cup {l}
    /\ UNCHANGED <<cb, cpc, ev, snap, tripTime, streak, trial, trialAlone,
                   alsoAdmitted, state_gauge, observed, now>>
    /\ UNCHANGED notBreaker

\* async with breaker.guard(endpoint): lines 51-66, up to the yield
GuardEnter(c) ==
    /\ cpc[c] = "idle"
    /\ cb.requests < MaxRequests
    /\ LET a == Admit(cb, now) IN
       /\ ev' = [kind |-> IF a = "reject" THEN "reject" ELSE "admit", c |-> c,
                 pre |-> cb.state, elapsed |-> now - tripTime,
                 wasTrial |-> a = "half_open", alone |-> InFlight = {},
                 raised |-> IF a = "reject" THEN "ConnectionAbortedError" ELSE "none"]
       /\ IF a = "reject"
          THEN UNCHANGED <<cb, cpc, snap, trial, trialAlone, alsoAdmitted>>
          ELSE /\ cb' = [cb EXCEPT !.state = IF a = "half_open" THEN "HALF_OPEN" ELSE @,
                                   !.requests = @ + 1]
               /\ cpc' = [cpc EXCEPT ![c] = "in"]
               /\ snap' = IF a = "half_open" THEN Counters(cb) ELSE snap
               /\ trial' = IF a = "half_open" THEN c ELSE trial
               /\ trialAlone' = IF a = "half_open" THEN InFlight = {} ELSE FALSE
               /\ alsoAdmitted' = IF a = "half_open" THEN {}
                                  ELSE IF trial /= 0 THEN alsoAdmitted \cup {c}
                                  ELSE alsoAdmitted
       /\ state_gauge' = IF a = "half_open"
                         THEN RecordState(RecordState(state_gauge, cb.state), "HALF_OPEN")
                         ELSE RecordState(state_gauge, cb.state)
       /\ observed' = IF a = "half_open" THEN NotifyListeners(observed, "HALF_OPEN")
                      ELSE observed
    /\ UNCHANGED <<tripTime, streak, now, state_listeners>>
    /\ UNCHANGED notBreaker

\* the trial bookkeeping when caller c leaves guard
TrialEnds(c) ==
    /\ trial' = IF trial = c THEN 0 ELSE trial
    /\ trialAlone' = IF trial = c THEN FALSE ELSE trialAlone
    /\ alsoAdmitted' = IF trial = c THEN {} ELSE alsoAdmitted \ {c}

\* the guarded body returns: lines 83-87
GuardExitOk(c) ==
    /\ cpc[c] = "in"
    /\ cb' = OnSuccess(cb)
    /\ cpc' = [cpc EXCEPT ![c] = "idle"]
    /\ ev' = [kind |-> "ok", c |-> c, pre |-> cb.state, elapsed |-> now - tripTime,
              wasTrial |-> trial = c, alone |-> trial = c /\ trialAlone,
              raised |-> "none"]
    /\ snap' = IF cb'.state /= cb.state THEN Counters(cb') ELSE snap
    /\ streak' = 0
    /\ TrialEnds(c)
    /\ state_gauge' = IF cb.state = "HALF_OPEN" THEN RecordState(state_gauge, "CLOSED")
                      ELSE state_gauge
    /\ observed' = IF cb.state = "HALF_OPEN" THEN NotifyListeners(observed, "CLOSED")
                   ELSE observed
    /\ UNCHANGED <<tripTime, now, state_listeners>>
    /\ UNCHANGED notBreaker

\* the guarded body raises: lines 69-82
GuardExitFail(c) ==
    /\ cpc[c] = "in"
    /\ cb' = OnFailure(cb, now)
    /\ cpc' = [cpc EXCEPT ![c] = "idle"]
    /\ ev' = [kind |-> "fail", c |-> c, pre |-> cb.state, elapsed |-> now - tripTime,
              wasTrial |-> trial = c, alone |-> trial = c /\ trialAlone,
              raised |-> RaisedBy(cb)]
    /\ snap' = IF cb'.state /= cb.state THEN Counters(cb') ELSE snap
    /\ tripTime' = IF cb'.state = "OPEN" /\ cb'.failures = 0 THEN now ELSE tripTime
    /\ streak' = IF streak < FailureThreshold THEN streak + 1 ELSE streak
    /\ TrialEnds(c)
    /\ state_gauge' = IF cb'.failures = 0 THEN RecordState(state_gauge, "OPEN")
                      ELSE state_gauge
    /\ observed' = IF cb'.failures = 0 THEN NotifyListeners(observed, "OPEN")
                   ELSE observed
    /\ UNCHANGED <<now, state_listeners>>
    /\ UNCHANGED notBreaker

BreakerNext ==
    \/ BreakerTick
    \/ \E c \in Callers : GuardEnter(c)
    \/ \E c \in Callers : GuardExitOk(c)
    \/ \E c \in Callers : GuardExitFail(c)
    \/ \E l \in StateListeners : RegisterStateListener(l)

\* the listener and the workers, not started
ListenerIdle ==
    /\ ListenerInit
    /\ policy = "DROP_OLDEST" /\ hasDLQ /\ queue_size = MaxQueueSize

InitBreaker ==
    /\ ListenerIdle
    /\ now = 0
    /\ BreakerInit
    /\ LimiterIdle
    /\ DlqIdle
    /\ RouterInit
    /\ DispatchInit
    /\ ShutdownIdle
    /\ PoolIdle
    /\ LockInit
    /\ PqIdle

SpecBreaker == InitBreaker /\ [][BreakerNext]_vars

\* --------------------------------------------------- rate_limiter.py model
\* acquire, lines 24-25: drop the timestamps that left the window
RECURSIVE Prune(_, _)
Prune(ts, t) ==
    IF ts /= <<>> /\ Head(ts) <= t - Period THEN Prune(Tail(ts), t) ELSE ts

\* a limiter that grants while the window holds rate_limit timestamps
HasPermitOffByOne(ts) == Len(ts) <= rate_limit

\* acquire, line 27: a permit is free
HasPermit(ts) == Len(ts) < rate_limit

\* acquire, lines 31-33: the sleep ends when the oldest grant leaves the window
SleepUntil(ts, t) == t + (Head(ts) + Period - t)

ReleaseToNobody(waiters) == 0

\* async with self._lock, on exit: the lock passes to the first waiter
ReleaseTo(waiters) == IF waiters = <<>> THEN 0 ELSE Head(waiters)

\* time passes
LimiterTick ==
    /\ now < MaxTime
    /\ now' = now + 1
    /\ UNCHANGED <<lvars, bvars, rvars, dvars, mvars, xvars, svars, pvars, kvars, dxvars, qvars>>

\* acquire, line 21: async with self._lock
AcquireCall(a) ==
    /\ rpc[a] = "idle"
    /\ rcalls < MaxCalls
    /\ rcalls' = rcalls + 1
    /\ IF lockHolder = 0
       THEN /\ lockHolder' = a
            /\ rpc' = [rpc EXCEPT ![a] = "check"]
            /\ UNCHANGED lockWaiters
       ELSE /\ lockWaiters' = Append(lockWaiters, a)
            /\ rpc' = [rpc EXCEPT ![a] = "lockwait"]
            /\ UNCHANGED lockHolder
    /\ UNCHANGED <<rate_limit, timestamps, rwake, grants, now>>
    /\ UNCHANGED notLimiter

\* acquire, lines 22-33: one pass of the loop, by the holder of the lock
AcquireCheck(a) ==
    /\ rpc[a] = "check"
    /\ lockHolder = a
    /\ LET ts == Prune(timestamps, now) IN
       IF HasPermit(ts)
       THEN /\ timestamps' = Append(ts, now)
            /\ grants' = Append(grants, now)
            /\ lockHolder' = ReleaseTo(lockWaiters)
            /\ lockWaiters' = IF lockWaiters = <<>> THEN <<>> ELSE Tail(lockWaiters)
            /\ rpc' = [b \in Acquirers |->
                          IF b = a THEN "idle"
                          ELSE IF b = ReleaseTo(lockWaiters) THEN "check"
                          ELSE rpc[b]]
            /\ UNCHANGED rwake
       ELSE /\ timestamps' = ts
            /\ rwake' = [rwake EXCEPT ![a] = SleepUntil(ts, now)]
            /\ rpc' = [rpc EXCEPT ![a] = "sleep"]
            /\ UNCHANGED <<grants, lockHolder, lockWaiters>>
    /\ UNCHANGED <<rate_limit, rcalls, now>>
    /\ UNCHANGED notLimiter

\* acquire, line 33: asyncio.sleep returns; the event loop may run a timer up
\* to its clock resolution (SleepSlack) before it is due
SleepReturns(a) ==
    /\ rpc[a] = "sleep"
    /\ now >= rwake[a] - SleepSlack
    /\ rpc' = [rpc EXCEPT ![a] = "check"]
    /\ UNCHANGED <<rate_limit, timestamps, lockHolder, lockWaiters, rwake, grants,
                   rcalls, now>>
    /\ UNCHANGED notLimiter

LimiterNext ==
    \/ LimiterTick
    \/ \E a \in Acquirers : AcquireCall(a)
    \/ \E a \in Acquirers : AcquireCheck(a)
    \/ \E a \in Acquirers : SleepReturns(a)

InitLimiter ==
    /\ ListenerIdle
    /\ now = 0
    /\ BreakerInit
    /\ LimiterInit
    /\ DlqIdle
    /\ RouterInit
    /\ DispatchInit
    /\ ShutdownIdle
    /\ PoolIdle
    /\ LockInit
    /\ PqIdle

SpecLimiter == InitLimiter /\ [][LimiterNext]_vars

\* time passes beyond MaxTime for as long as an acquire() has a sleep to finish
SleeperTick ==
    /\ now >= MaxTime
    /\ \E a \in Acquirers : rpc[a] /= "idle" /\ now < rwake[a]
    /\ now' = now + 1
    /\ UNCHANGED <<lvars, bvars, rvars, dvars, mvars, xvars, svars, pvars, kvars, dxvars, qvars>>

LimiterLiveNext ==
    \/ LimiterTick
    \/ SleeperTick
    \/ \E a \in Acquirers : AcquireCall(a)
    \/ \E a \in Acquirers : AcquireCheck(a)
    \/ \E a \in Acquirers : SleepReturns(a)

InitLimiterLive ==
    /\ ListenerIdle
    /\ now = 0
    /\ BreakerInit
    /\ LimiterInit
    /\ DlqIdle
    /\ RouterInit
    /\ DispatchInit
    /\ ShutdownIdle
    /\ PoolIdle
    /\ LockInit
    /\ PqIdle

\* the event loop runs every task that is ready (the holder of the lock, a
\* sleeper whose timer is due), and the clock advances
SpecLimiterLive ==
    /\ InitLimiterLive
    /\ [][LimiterLiveNext]_vars
    /\ WF_vars(LimiterTick)
    /\ WF_vars(SleeperTick)
    /\ \A a \in Acquirers : WF_vars(AcquireCheck(a)) /\ WF_vars(SleepReturns(a))

\* --------------------------------------- dead_letter_queue.py: send, replay
DlqTick ==
    /\ now < DlqMaxTime
    /\ now' = now + 1
    /\ UNCHANGED <<notDlq, dvars, dxvars>>

\* send(m, retry_count=..., next_retry_at=...), lines 41-54, for a retry_count
\* that is not negative: build the entry, storage.append.  What a replay()
\* that has returned left behind is forgotten.
SendCall(m, retry_count, next_retry_at) ==
    /\ spc = "idle"
    /\ storage' = Append(storage, DlqMessage(m, retry_count, next_retry_at, now))
    /\ sent' = [retry_count |-> retry_count, next_retry_at |-> next_retry_at,
                raised |-> "none"]
    /\ spc' = "metric"
    /\ touched' = (ppc /= "idle")
    /\ IF ppc = "done"
       THEN /\ ppc' = "idle"
            /\ messages' = <<>>
            /\ current_time' = 0
            /\ ready_messages' = <<>>
            /\ messages_to_keep' = <<>>
            /\ kept' = 0
            /\ result' = <<>>
       ELSE UNCHANGED <<ppc, messages, current_time, ready_messages,
                        messages_to_keep, kept, result>>
    /\ UNCHANGED <<base_backoff, gauge, returned, discarded>>
    /\ UNCHANGED <<now, notDlq>>

\* a send() of a new payload.  retry_count ranges over the non-negative values
\* (a negative one raises before anything is done).
SendAppend ==
    /\ nsent < MaxSends
    /\ \E retry_count \in RetryCounts, next_retry_at \in {NoRetryAt, now + 1} :
           SendCall(nsent + 1, retry_count, next_retry_at)
    /\ nsent' = nsent + 1
    /\ UNCHANGED <<ready_count, to_resend>>

\* send(), line 61: _update_backlog_metric() counts what read_all returns
SendMetric ==
    /\ spc = "metric"
    /\ gauge' = Len(storage)
    /\ spc' = "idle"
    /\ sent' = NoSend
    /\ UNCHANGED <<ready_count, to_resend>>
    /\ UNCHANGED <<base_backoff, storage, nsent, ppc, messages, current_time,
                   ready_messages, messages_to_keep, kept, result, touched, returned,
                   discarded>>
    /\ UNCHANGED <<now, notDlq>>

\* send(), lines 41-43: a negative retry_count raises ValueError before
\* anything is built or stored
SendRejected ==
    /\ spc = "idle"
    /\ sent' = [retry_count |-> -1, next_retry_at |-> NoRetryAt, raised |-> "ValueError"]
    /\ sent' /= sent
    /\ UNCHANGED <<ready_count, to_resend>>
    /\ UNCHANGED <<dvars, now, notDlq>>

\* replay(), line 64: storage.read_all
ReplayRead ==
    /\ ppc \in {"idle", "done"}
    /\ messages' = storage
    /\ ppc' = "read"
    /\ touched' = FALSE
    /\ ready_messages' = <<>>
    /\ messages_to_keep' = <<>>
    /\ kept' = 0
    /\ UNCHANGED <<base_backoff, storage, gauge, spc, nsent, current_time, result,
                   returned, discarded>>
    /\ UNCHANGED <<now, notDlq, dxvars>>

\* replay(), lines 65-66: nothing stored, return []
ReplayReturnsEmpty ==
    /\ ppc = "read"
    /\ messages = <<>>
    /\ result' = <<>>
    /\ ppc' = "done"
    /\ UNCHANGED <<base_backoff, storage, gauge, spc, nsent, messages, current_time,
                   ready_messages, messages_to_keep, kept, touched, returned, discarded>>
    /\ UNCHANGED <<now, notDlq, dxvars>>

\* replay(), line 68: storage.delete_all
ReplayDeleteAll ==
    /\ ppc = "read"
    /\ messages /= <<>>
    /\ storage' = <<>>
    /\ ppc' = "cleared"
    /\ UNCHANGED <<base_backoff, gauge, spc, nsent, messages, current_time,
                   ready_messages, messages_to_keep, kept, result, touched, returned,
                   discarded>>
    /\ UNCHANGED <<now, notDlq, dxvars>>

\* replay(), lines 70-97: the partition loop at current_time = time.time()
ReplayPartition ==
    /\ ppc = "cleared"
    /\ current_time' = now
    /\ ready_messages' = ReadyOf(messages, now)
    /\ messages_to_keep' = KeepOf(messages, now)
    /\ discarded' = discarded \cup DiscardedOf(messages)
    /\ kept' = 0
    /\ ppc' = "append"
    /\ UNCHANGED <<base_backoff, storage, gauge, spc, nsent, messages, result,
                   touched, returned>>
    /\ UNCHANGED <<now, notDlq, dxvars>>

\* replay(), lines 99-100: storage.append of the next pending entry
ReplayAppend ==
    /\ ppc = "append"
    /\ kept < Len(messages_to_keep)
    /\ storage' = Append(storage, messages_to_keep[kept + 1])
    /\ kept' = kept + 1
    /\ UNCHANGED <<base_backoff, gauge, spc, nsent, ppc, messages, current_time,
                   ready_messages, messages_to_keep, result, touched, returned,
                   discarded>>
    /\ UNCHANGED <<now, notDlq, dxvars>>

\* replay(), lines 110-119: _update_backlog_metric(len(messages_to_keep)),
\* return ready_messages
ReplayReturn ==
    /\ ppc = "append"
    /\ kept = Len(messages_to_keep)
    /\ gauge' = Len(messages_to_keep)
    /\ result' = ready_messages
    /\ returned' = returned \cup MessagesOf(ready_messages)
    /\ ppc' = "done"
    /\ UNCHANGED <<base_backoff, storage, spc, nsent, messages, current_time,
                   ready_messages, messages_to_keep, kept, touched, discarded>>
    /\ UNCHANGED <<now, notDlq>>

\* replay() returns to a caller that does nothing with the ready entries
ReplayReturns ==
    /\ ReplayReturn
    /\ UNCHANGED dxvars

DlqNext ==
    \/ DlqTick
    \/ SendAppend
    \/ SendMetric
    \/ ReplayRead
    \/ ReplayReturnsEmpty
    \/ ReplayDeleteAll
    \/ ReplayPartition
    \/ ReplayAppend
    \/ ReplayReturns

InitDlq ==
    /\ ListenerIdle
    /\ now = 0
    /\ BreakerInit
    /\ LimiterIdle
    /\ DlqInit
    /\ RouterInit
    /\ DispatchInit
    /\ ShutdownIdle
    /\ PoolIdle
    /\ LockInit
    /\ PqIdle

SpecDlq == InitDlq /\ [][DlqNext]_vars

\* send() alone, over every kind of argument
DlqSendNext ==
    \/ DlqTick
    \/ SendAppend
    \/ SendMetric
    \/ SendRejected

InitDlqSend ==
    /\ ListenerIdle
    /\ now = 0
    /\ BreakerInit
    /\ LimiterIdle
    /\ base_backoff \in BaseBackoffInputs
    /\ DlqEmpty
    /\ RouterInit
    /\ DispatchInit
    /\ ShutdownIdle
    /\ PoolIdle
    /\ LockInit
    /\ PqIdle

SpecDlqSend == InitDlqSend /\ [][DlqSendNext]_vars

\* ------------------------- dead_letter_queue.py: replay over a failing store
\* replay(), line 64: storage.read_all raises; nothing was read or changed
ReplayReadFails ==
    /\ ppc \in {"idle", "done"}
    /\ messages' = <<>>
    /\ ready_messages' = <<>>
    /\ messages_to_keep' = <<>>
    /\ kept' = 0
    /\ touched' = FALSE
    /\ ppc' = "raised"
    /\ UNCHANGED <<base_backoff, storage, gauge, spc, nsent, current_time, result,
                   returned, discarded>>
    /\ UNCHANGED <<now, notDlq, dxvars>>

\* replay(), line 68: storage.delete_all raises; the stored list is as it was
ReplayDeleteAllFails ==
    /\ ppc = "read"
    /\ messages /= <<>>
    /\ ppc' = "raised"
    /\ UNCHANGED <<base_backoff, storage, gauge, spc, nsent, messages, current_time,
                   ready_messages, messages_to_keep, kept, result, touched, returned,
                   discarded>>
    /\ UNCHANGED <<now, notDlq, dxvars>>

\* replay(), lines 99-100: storage.append of a pending entry raises; the
\* exception leaves replay(), which has no try statement
ReplayAppendFails ==
    /\ ppc = "append"
    /\ kept < Len(messages_to_keep)
    /\ ppc' = "raised"
    /\ UNCHANGED <<base_backoff, storage, gauge, spc, nsent, messages, current_time,
                   ready_messages, messages_to_keep, kept, result, touched, returned,
                   discarded>>
    /\ UNCHANGED <<now, notDlq, dxvars>>

DlqFaultsNext ==
    \/ DlqNext
    \/ ReplayReadFails
    \/ ReplayDeleteAllFails
    \/ ReplayAppendFails

SpecDlqFaults == InitDlq /\ [][DlqFaultsNext]_vars

\* ------------------- dead_letter_queue.py: replay() and a caller that retries
\* replay() returns to a caller that tries every ready entry again
ReplayReturnsToRetry ==
    /\ ReplayReturn
    /\ ready_count' = [p \in Payloads |->
                          ready_count[p]
                          + Cardinality({i \in DOMAIN ready_messages :
                                            ready_messages[i].message = p})]
    /\ to_resend' = to_resend \cup {[message |-> e.message, retry_count |-> e.retry_count] :
                                       e \in Range(ready_messages)}
    /\ UNCHANGED sent

\* the retry of a ready entry failed: the caller sends the payload again, with
\* the retry_count that replay() returned
Resend ==
    /\ \E e \in to_resend :
           /\ SendCall(e.message, e.retry_count, NoRetryAt)
           /\ to_resend' = to_resend \ {e}
    /\ UNCHANGED <<nsent, ready_count>>

\* send(m, retry_count=k) of a new payload, next_retry_at left to the backoff
SendNew ==
    /\ nsent < MaxRetried
    /\ \E retry_count \in RetryCounts : SendCall(nsent + 1, retry_count, NoRetryAt)
    /\ nsent' = nsent + 1
    /\ UNCHANGED <<ready_count, to_resend>>

DlqRetryNext ==
    \/ DlqTick
    \/ SendNew
    \/ SendMetric
    \/ ReplayRead
    \/ ReplayReturnsEmpty
    \/ ReplayDeleteAll
    \/ ReplayPartition
    \/ ReplayAppend
    \/ ReplayReturnsToRetry
    \/ Resend

SpecDlqRetry == InitDlq /\ [][DlqRetryNext]_vars

\* ------------------------------- persistent_queue.py: append, replay
\* where a task goes once it holds the lock
PqEntry(t, arg) == IF arg = 0 THEN "read" ELSE "append"

\* append(raw) or replay() is called (arg 0): lines 56 and 75, async with
\* self._lock; the message of append() is built before the lock is taken
PqCall(t, isAppend) ==
    /\ pq_pc[t] = "idle"
    /\ isAppend => pq_ncalls < MaxAppends
    /\ LET arg == IF isAppend THEN pq_ncalls + 1 ELSE 0 IN
       /\ pq_arg' = [pq_arg EXCEPT ![t] = arg]
       /\ pq_ncalls' = IF isAppend THEN pq_ncalls + 1 ELSE pq_ncalls
       /\ IF pq_holder = 0 /\ pq_lock_waiters = <<>>
          THEN /\ pq_holder' = t
               /\ pq_pc' = [pq_pc EXCEPT ![t] = PqEntry(t, arg)]
               /\ UNCHANGED pq_lock_waiters
          ELSE /\ pq_lock_waiters' = Append(pq_lock_waiters, t)
               /\ pq_pc' = [pq_pc EXCEPT ![t] = "lockwait"]
               /\ UNCHANGED pq_holder
    /\ UNCHANGED <<pq_max_length, pq_store, pq_todo, pq_appended, pq_result>>
    /\ UNCHANGED <<now, notPq>>

\* the end of `async with self._lock` for task t: the lock passes to the
\* first waiter, which goes on into its call
PqRelease(t) ==
    /\ pq_holder' = IF pq_lock_waiters = <<>> THEN 0 ELSE Head(pq_lock_waiters)
    /\ pq_lock_waiters' = IF pq_lock_waiters = <<>> THEN <<>> ELSE Tail(pq_lock_waiters)
    /\ pq_pc' = [u \in PqTasks |->
                    IF u = t THEN "idle"
                    ELSE IF pq_lock_waiters /= <<>> /\ u = Head(pq_lock_waiters)
                    THEN PqEntry(u, pq_arg[u])
                    ELSE pq_pc[u]]

\* append, line 77: storage.append of the new record
PqStorageAppend(t) ==
    /\ pq_pc[t] = "append"
    /\ pq_store' = Append(pq_store, pq_arg[t])
    /\ pq_appended' = Append(pq_appended, pq_arg[t])
    /\ pq_pc' = [pq_pc EXCEPT ![t] = "truncate"]
    /\ UNCHANGED <<pq_max_length, pq_holder, pq_lock_waiters, pq_arg, pq_todo,
                   pq_result, pq_ncalls>>
    /\ UNCHANGED <<now, notPq>>

\* _truncate_locked, lines 116-118: read_all; nothing to trim, append returns
PqTruncateNotNeeded(t) ==
    /\ pq_pc[t] = "truncate"
    /\ Len(pq_store) <= EffectiveMaxLength
    /\ PqRelease(t)
    /\ UNCHANGED <<pq_max_length, pq_store, pq_arg, pq_todo, pq_appended, pq_result,
                   pq_ncalls>>
    /\ UNCHANGED <<now, notPq>>

\* _truncate_locked, lines 116-120: read_all, trim, delete_all
PqTruncateDelete(t) ==
    /\ pq_pc[t] = "truncate"
    /\ Len(pq_store) > EffectiveMaxLength
    /\ pq_todo' = Trimmed(pq_store, EffectiveMaxLength)
    /\ pq_store' = <<>>
    /\ pq_pc' = [pq_pc EXCEPT ![t] = "restore"]
    /\ UNCHANGED <<pq_max_length, pq_holder, pq_lock_waiters, pq_arg, pq_appended,
                   pq_result, pq_ncalls>>
    /\ UNCHANGED <<now, notPq>>

\* _truncate_locked, lines 121-122: storage.append of the next trimmed record
PqTruncateAppend(t) ==
    /\ pq_pc[t] = "restore"
    /\ pq_todo /= <<>>
    /\ pq_store' = Append(pq_store, Head(pq_todo))
    /\ pq_todo' = Tail(pq_todo)
    /\ UNCHANGED <<pq_max_length, pq_holder, pq_lock_waiters, pq_pc, pq_arg,
                   pq_appended, pq_result, pq_ncalls>>
    /\ UNCHANGED <<now, notPq>>

\* _truncate_locked is through, append returns
PqAppendReturns(t) ==
    /\ pq_pc[t] = "restore"
    /\ pq_todo = <<>>
    /\ PqRelease(t)
    /\ UNCHANGED <<pq_max_length, pq_store, pq_arg, pq_todo, pq_appended, pq_result,
                   pq_ncalls>>
    /\ UNCHANGED <<now, notPq>>

\* replay, lines 57-71: read_all, every record parsed, the list returned
PqReplay(t) ==
    /\ pq_pc[t] = "read"
    /\ pq_result' = pq_store
    /\ PqRelease(t)
    /\ UNCHANGED <<pq_max_length, pq_store, pq_arg, pq_todo, pq_appended, pq_ncalls>>
    /\ UNCHANGED <<now, notPq>>

PqNext ==
    \/ \E t \in PqTasks, isAppend \in BOOLEAN : PqCall(t, isAppend)
    \/ \E t \in PqTasks : PqStorageAppend(t)
    \/ \E t \in PqTasks : PqTruncateNotNeeded(t)
    \/ \E t \in PqTasks : PqTruncateDelete(t)
    \/ \E t \in PqTasks : PqTruncateAppend(t)
    \/ \E t \in PqTasks : PqAppendReturns(t)
    \/ \E t \in PqTasks : PqReplay(t)

InitPq ==
    /\ ListenerIdle
    /\ now = 0
    /\ BreakerInit
    /\ LimiterIdle
    /\ DlqIdle
    /\ RouterInit
    /\ DispatchInit
    /\ ShutdownIdle
    /\ PoolIdle
    /\ LockInit
    /\ PqInit

SpecPq == InitPq /\ [][PqNext]_vars

\* ------------------------- worker_pool_manager.py: register, start, select
\* register() of a new Command with one trigger
RouterRegister(kind, t) ==
    /\ Len(cmds) < MaxCommands
    /\ cmds' = Append(cmds, [case_sensitive |-> kind = "sensitive",
                             regex |-> kind = "regex", trigger |-> t])
    /\ IF kind = "regex"
       THEN /\ regex_commands' = Append(regex_commands,
                                        [pattern |-> t, command |-> Len(cmds) + 1])
            /\ UNCHANGED commands
       ELSE /\ commands' = DictSet(commands, t, Len(cmds) + 1)
            /\ UNCHANGED regex_commands
    /\ late' = (late \/ started)
    /\ UNCHANGED <<started, sensitive_triggers, insensitive_triggers, worker_regex,
                   text, selected>>
    /\ UNCHANGED <<now, notRouter>>

\* register() of a Command registered before: a literal trigger is bound to
\* it again, a regex trigger is skipped (lines 228-230)
RouterRegisterAgain(c) ==
    /\ c \in DOMAIN cmds
    /\ ~cmds[c].regex
    /\ commands[cmds[c].trigger] /= c
    /\ commands' = DictSet(commands, cmds[c].trigger, c)
    /\ late' = (late \/ started)
    /\ UNCHANGED <<cmds, regex_commands, started, sensitive_triggers,
                   insensitive_triggers, worker_regex, text, selected>>
    /\ UNCHANGED <<now, notRouter>>

\* start(): _compile_triggers and the WorkerConfig handed to the workers
RouterStart ==
    /\ ~started
    /\ sensitive_triggers' = CompileTriggers(TRUE)
    /\ insensitive_triggers' = CompileTriggers(FALSE)
    /\ worker_regex' = regex_commands
    /\ started' = TRUE
    /\ UNCHANGED <<cmds, commands, regex_commands, text, selected, late>>
    /\ UNCHANGED <<now, notRouter>>

\* Worker.process, line 121: _select_command(text) on a non-empty text
RouterSelect(x) ==
    /\ started
    /\ text' = x
    /\ selected' = SelectCommand(x)
    /\ UNCHANGED <<cmds, commands, regex_commands, started, sensitive_triggers,
                   insensitive_triggers, worker_regex, late>>
    /\ UNCHANGED <<now, notRouter>>

RouterNext ==
    \/ \E kind \in CommandKinds, t \in Triggers : RouterRegister(kind, t)
    \/ \E c \in 1..MaxCommands : RouterRegisterAgain(c)
    \/ RouterStart
    \/ \E x \in Texts : RouterSelect(x)

InitRouter ==
    /\ ListenerIdle
    /\ now = 0
    /\ BreakerInit
    /\ LimiterIdle
    /\ DlqIdle
    /\ RouterInit
    /\ DispatchInit
    /\ ShutdownIdle
    /\ PoolIdle
    /\ LockInit
    /\ PqIdle

SpecRouter == InitRouter /\ [][RouterNext]_vars

\* --------------------------- worker_pool.py: process, _execute_with_middleware
\* register_middleware / add_middleware: a callable not registered before is
\* appended to the worker's list, also while a dispatch is running: another
\* task runs whenever a middleware or the handler awaits (invoke itself has
\* no await before the middleware or the handler is called)
RegisterMiddleware(m) ==
    /\ xpc /= "invoke"
    /\ m \notin Range(middleware)
    /\ middleware' = Append(middleware, m)
    /\ UNCHANGED <<xpc, source, command, depth, outcome, ndispatched, entered,
                   calledNext, handlerRuns, handlerSaw, shortCircuit>>
    /\ UNCHANGED chain
    /\ UNCHANGED <<now, notDispatch>>

\* process(), lines 97-132 up to invoke(0): the text check, router.match, the
\* whitelist check, and the handle check of _execute_with_middleware
DispatchBegin(src, hasText, match) ==
    /\ xpc = "idle"
    /\ ndispatched < MaxDispatches
    /\ ndispatched' = ndispatched + 1
    /\ source' = src
    /\ command' = match
    /\ depth' = 0
    /\ entered' = <<>>
    /\ calledNext' = {}
    /\ handlerRuns' = 0
    /\ handlerSaw' = <<>>
    /\ shortCircuit' = 0
    /\ chain' = middleware
    /\ IF ~hasText THEN xpc' = "idle" /\ outcome' = "no_text"
       ELSE IF ~match.matched THEN xpc' = "idle" /\ outcome' = "no_command"
       ELSE IF ~IsWhitelisted(match, src)
       THEN xpc' = "idle" /\ outcome' = "not_whitelisted"
       ELSE IF ~match.handle THEN xpc' = "idle" /\ outcome' = "failed"
       ELSE xpc' = "invoke" /\ outcome' = "none"
    /\ UNCHANGED middleware
    /\ UNCHANGED <<now, notDispatch>>

\* invoke(index), lines 153-158: the next middleware is entered
MiddlewareEnter ==
    /\ xpc = "invoke"
    /\ ~IsTerminal(depth)
    /\ entered' = Append(entered, middleware[depth + 1])
    /\ depth' = depth + 1
    /\ xpc' = "in"
    /\ UNCHANGED <<middleware, source, command, outcome, ndispatched, calledNext,
                   handlerRuns, handlerSaw, shortCircuit>>
    /\ UNCHANGED chain
    /\ UNCHANGED <<now, notDispatch>>

\* the running middleware awaits next(ctx): next_callable, lines 155-156
MiddlewareCallsNext ==
    /\ xpc = "in"
    /\ calledNext' = calledNext \cup {middleware[depth]}
    /\ xpc' = "invoke"
    /\ UNCHANGED <<middleware, source, command, depth, outcome, ndispatched,
                   entered, handlerRuns, handlerSaw, shortCircuit>>
    /\ UNCHANGED chain
    /\ UNCHANGED <<now, notDispatch>>

\* the running middleware returns without calling next
MiddlewareShortCircuits ==
    /\ xpc = "in"
    /\ shortCircuit' = middleware[depth]
    /\ depth' = depth - 1
    /\ xpc' = "back"
    /\ UNCHANGED <<middleware, source, command, outcome, ndispatched, entered,
                   calledNext, handlerRuns, handlerSaw>>
    /\ UNCHANGED chain
    /\ UNCHANGED <<now, notDispatch>>

\* invoke(index), lines 150-152: the terminal continuation awaits the handler
HandlerStarts ==
    /\ xpc = "invoke"
    /\ IsTerminal(depth)
    /\ handlerRuns' = handlerRuns + 1
    /\ handlerSaw' = middleware
    /\ xpc' = "handler"
    /\ UNCHANGED <<middleware, source, command, depth, outcome, ndispatched,
                   entered, calledNext, shortCircuit>>
    /\ UNCHANGED chain
    /\ UNCHANGED <<now, notDispatch>>

HandlerReturns ==
    /\ xpc = "handler"
    /\ xpc' = "back"
    /\ UNCHANGED <<middleware, source, command, depth, outcome, ndispatched,
                   entered, calledNext, handlerRuns, handlerSaw, shortCircuit>>
    /\ UNCHANGED chain
    /\ UNCHANGED <<now, notDispatch>>

\* the middleware whose next(ctx) returned goes on and returns
MiddlewareReturns ==
    /\ xpc = "back"
    /\ depth > 0
    /\ depth' = depth - 1
    /\ UNCHANGED <<middleware, xpc, source, command, outcome, ndispatched, entered,
                   calledNext, handlerRuns, handlerSaw, shortCircuit>>
    /\ UNCHANGED chain
    /\ UNCHANGED <<now, notDispatch>>

\* invoke(0) returned: process() ends normally
DispatchEnds ==
    /\ xpc = "back"
    /\ depth = 0
    /\ xpc' = "idle"
    /\ outcome' = "ok"
    /\ UNCHANGED <<middleware, source, command, depth, ndispatched, entered,
                   calledNext, handlerRuns, handlerSaw, shortCircuit>>
    /\ UNCHANGED chain
    /\ UNCHANGED <<now, notDispatch>>

\* the handler or a middleware raises: the exception leaves every frame of the
\* chain and is logged by process(), lines 123-132
ChainRaises ==
    /\ xpc \in {"in", "handler", "back"}
    /\ xpc = "back" => depth > 0
    /\ xpc' = "idle"
    /\ depth' = 0
    /\ outcome' = "failed"
    /\ UNCHANGED <<middleware, source, command, ndispatched, entered, calledNext,
                   handlerRuns, handlerSaw, shortCircuit>>
    /\ UNCHANGED chain
    /\ UNCHANGED <<now, notDispatch>>

DispatchNext ==
    \/ \E m \in MiddlewareIds : RegisterMiddleware(m)
    \/ \E src \in SenderIds, hasText \in BOOLEAN, match \in MatchResults :
           DispatchBegin(src, hasText, match)
    \/ MiddlewareEnter
    \/ MiddlewareCallsNext
    \/ MiddlewareShortCircuits
    \/ HandlerStarts
    \/ HandlerReturns
    \/ MiddlewareReturns
    \/ DispatchEnds
    \/ ChainRaises

InitDispatch ==
    /\ ListenerIdle
    /\ now = 0
    /\ BreakerInit
    /\ LimiterIdle
    /\ DlqIdle
    /\ RouterInit
    /\ DispatchInit
    /\ ShutdownIdle
    /\ PoolIdle
    /\ LockInit
    /\ PqIdle

SpecDispatch == InitDispatch /\ [][DispatchNext]_vars

\* ------------------------------------------------------- bot.py shutdown model
\* The listener, the workers and SignalClient.shutdown() as three kinds of
\* asyncio tasks on one event loop. No dead letter queue is configured here: a
\* frame that is not enqueued is dropped. A timer (the put timeout of the
\* listener, the get timeout of a worker) fires only when no task that was
\* made ready before it is still waiting to run.

\* WorkerPool(pool_size=n).start(): workers 1..n have a task, the others none
PoolOf(n) == [w \in Workers |-> IF w <= n THEN "poll" ELSE "absent"]

\* Queue.task_done: when _unfinished_tasks reaches zero, _finished is set and a
\* shutdown() blocked in queue.join() is resumed; join() does not look at the
\* counter again, whatever is put before it runs.
AfterTaskDone(u) == IF sdpc = "join" /\ u = 0 THEN "drained" ELSE sdpc

\* a worker blocked in queue.get() while the queue holds an item: it has been
\* woken and runs before any timer armed earlier can fire
ConsumerReady == queue /= <<>> /\ \E w \in Workers : wpc[w] = "poll"

\* the listener blocked in queue.put() while the queue has room: it has been
\* woken and puts its frame before a get that began later can time out
PutterReady == lpc = "wait" /\ ~Full(queue)

ShutdownInit ==
    /\ policy \in {"FAIL_FAST", "DROP_OLDEST"}
    /\ hasDLQ = FALSE
    /\ queue_size \in 1..MaxQueueSize
    /\ lpc = "recv"
    /\ lerr = "none"
    /\ cur = 0
    /\ attempt = 1
    /\ nrecv = 0
    /\ queue = <<>>
    /\ unfinished = 0
    /\ dlqCalls = <<>>
    /\ dlq = <<>>
    /\ \E n \in 0..NumWorkers : wpc = PoolOf(n)
    /\ witem = [w \in Workers |-> 0]
    /\ enq = {}
    /\ timedOut = {}
    /\ failedPut = {}
    /\ evicted = {}
    /\ taken = <<>>
    /\ acks = [f \in Frames |-> 0]
    /\ ShutdownIdle

\* listen(), lines 47-57 and 74-78: the transport yields the next frame; the
\* listener puts it on the queue, or blocks in the put when the queue is full
AcceptFrame ==
    /\ lpc = "recv"
    /\ ~closed
    /\ nrecv < MaxFrames
    /\ nrecv' = nrecv + 1
    /\ IF Full(queue)
       THEN /\ cur' = nrecv + 1
            /\ lpc' = "wait"
            /\ UNCHANGED <<queue, unfinished, enq>>
       ELSE /\ queue' = Enqueue(queue, nrecv + 1)
            /\ unfinished' = unfinished + 1
            /\ enq' = enq \cup {nrecv + 1}
            /\ UNCHANGED <<cur, lpc>>
    /\ UNCHANGED <<policy, hasDLQ, queue_size, lerr, attempt, dlqCalls, dlq, wpc,
                   witem, timedOut, failedPut, evicted, taken, acks>>
    /\ UNCHANGED <<svars, notShutdown>>

\* a worker made room: the blocked put completes
BlockedPutCompletes ==
    /\ PutterReady
    /\ queue' = Enqueue(queue, cur)
    /\ unfinished' = unfinished + 1
    /\ enq' = enq \cup {cur}
    /\ cur' = 0
    /\ attempt' = 1
    /\ lpc' = "recv"
    /\ UNCHANGED <<policy, hasDLQ, queue_size, lerr, nrecv, dlqCalls, dlq, wpc,
                   witem, timedOut, failedPut, evicted, taken, acks>>
    /\ UNCHANGED <<svars, notShutdown>>

\* the blocked put times out: _handle_enqueue_timeout, lines 83-115; the
\* task_done for an evicted item (line 92) can release queue.join()
BlockedPutTimesOut ==
    /\ lpc = "wait"
    /\ ~ConsumerReady
    /\ IF attempt = 1
       THEN LET r == HandleEnqueueTimeout(queue, cur) IN
            /\ timedOut' = timedOut \cup {cur}
            /\ queue' = r.q
            /\ evicted' = IF r.ev = 0 THEN evicted ELSE evicted \cup {r.ev}
            /\ acks' = IF r.ev = 0 THEN acks ELSE [acks EXCEPT ![r.ev] = @ + 1]
            /\ unfinished' = unfinished - (IF r.ev = 0 THEN 0 ELSE 1)
                                        + (IF r.kind = "enqueued" THEN 1 ELSE 0)
            /\ sdpc' = IF r.ev = 0 THEN sdpc ELSE AfterTaskDone(unfinished - 1)
            /\ enq' = IF r.kind = "enqueued" THEN enq \cup {cur} ELSE enq
            /\ lpc' = IF r.kind = "wait" THEN "wait" ELSE "recv"
            /\ attempt' = IF r.kind = "wait" THEN 2 ELSE 1
            /\ cur' = IF r.kind = "wait" THEN cur ELSE 0
       ELSE /\ lpc' = "recv"
            /\ attempt' = 1
            /\ cur' = 0
            /\ UNCHANGED <<timedOut, queue, evicted, acks, unfinished, enq, sdpc>>
    /\ UNCHANGED <<policy, hasDLQ, queue_size, lerr, nrecv, dlqCalls, dlq, wpc,
                   witem, failedPut, taken>>
    /\ UNCHANGED <<closed, stopped, steps, notShutdown>>

\* websocket_client.py listen(), line 41: _stop is set, the stream ends and
\* listen() returns
StreamEnds ==
    /\ lpc = "recv"
    /\ closed
    /\ lpc' = "done"
    /\ UNCHANGED <<policy, hasDLQ, queue_size, lerr, cur, attempt, nrecv, queue,
                   unfinished, dlqCalls, dlq, wpc, witem, enq, timedOut,
                   failedPut, evicted, taken, acks>>
    /\ UNCHANGED <<svars, notShutdown>>

\* process_messages, line 60: queue.get() returns the oldest item
WorkerTakes(w) ==
    /\ wpc[w] = "poll"
    /\ queue /= <<>>
    /\ witem' = [witem EXCEPT ![w] = Head(queue)]
    /\ queue' = Tail(queue)
    /\ taken' = Append(taken, Head(queue))
    /\ wpc' = [wpc EXCEPT ![w] = "proc"]
    /\ UNCHANGED <<policy, hasDLQ, queue_size, lpc, lerr, cur, attempt, nrecv,
                   unfinished, dlqCalls, dlq, enq, timedOut, failedPut, evicted,
                   acks>>
    /\ UNCHANGED <<svars, notShutdown>>

\* process_messages, lines 61-95 and back to line 58: the item is handled,
\* task_done runs in the finally block, and the loop ends when _stop is set
WorkerDone(w, o) ==
    /\ wpc[w] = "proc"
    /\ unfinished' = unfinished - 1
    /\ sdpc' = AfterTaskDone(unfinished - 1)
    /\ acks' = [acks EXCEPT ![witem[w]] = @ + 1]
    /\ witem' = [witem EXCEPT ![w] = 0]
    /\ wpc' = [wpc EXCEPT ![w] = IF Propagates(o) THEN "crashed"
                                 ELSE IF stopped THEN "exited" ELSE "poll"]
    /\ UNCHANGED <<policy, hasDLQ, queue_size, lpc, lerr, cur, attempt, nrecv,
                   queue, dlqCalls, dlq, enq, timedOut, failedPut, evicted, taken>>
    /\ UNCHANGED <<closed, stopped, steps, notShutdown>>

\* process_messages, lines 58-60 and 94-95: the get timed out on an empty
\* queue, and the loop ends because _stop is set
WorkerGetTimesOut(w) ==
    /\ wpc[w] = "poll"
    /\ stopped
    /\ queue = <<>>
    /\ ~PutterReady
    /\ wpc' = [wpc EXCEPT ![w] = "exited"]
    /\ UNCHANGED <<policy, hasDLQ, queue_size, lpc, lerr, cur, attempt, nrecv,
                   queue, unfinished, dlqCalls, dlq, witem, enq, timedOut,
                   failedPut, evicted, taken, acks>>
    /\ UNCHANGED <<svars, notShutdown>>

\* shutdown(), lines 101-103: await self.websocket_client.close()
ShutdownClose ==
    /\ sdpc = "off"
    /\ closed' = TRUE
    /\ steps' = Append(steps, "close")
    /\ sdpc' = "closed"
    /\ UNCHANGED <<stopped, lvars, notShutdown>>

\* shutdown(), lines 105-107: await self.queue.join()
ShutdownQueueJoin ==
    /\ sdpc = "closed"
    /\ steps' = Append(steps, "drain")
    /\ sdpc' = IF JoinReturns THEN "drained" ELSE "join"
    /\ UNCHANGED <<closed, stopped, lvars, notShutdown>>

\* shutdown(), lines 109-111: self.worker_pool.stop()
ShutdownStop ==
    /\ sdpc = "drained"
    /\ stopped' = TRUE
    /\ steps' = Append(steps, "stop")
    /\ sdpc' = "pooljoin"
    /\ UNCHANGED <<closed, lvars, notShutdown>>

\* shutdown(), line 112 with WorkerPool.join, lines 219-222: no task, or
\* every worker task has returned
ShutdownPoolJoin ==
    /\ sdpc = "pooljoin"
    /\ \A w \in Workers : wpc[w] \in {"exited", "absent"}
    /\ steps' = Append(steps, "await_workers")
    /\ sdpc' = "release"
    /\ UNCHANGED <<closed, stopped, lvars, notShutdown>>

\* the same await when a worker task ended with an exception: gather raises
\* it, and it leaves shutdown()
ShutdownPoolJoinRaises ==
    /\ sdpc = "pooljoin"
    /\ \E w \in Workers : wpc[w] = "crashed"
    /\ sdpc' = "raised"
    /\ UNCHANGED <<closed, stopped, steps, lvars, notShutdown>>

\* shutdown(), lines 114-119: close the session and the storage
ShutdownRelease ==
    /\ sdpc = "release"
    /\ steps' = Append(steps, "release")
    /\ sdpc' = "done"
    /\ UNCHANGED <<closed, stopped, lvars, notShutdown>>

ShutdownNext ==
    \/ AcceptFrame
    \/ BlockedPutCompletes
    \/ BlockedPutTimesOut
    \/ StreamEnds
    \/ \E w \in Workers : WorkerTakes(w)
    \/ \E w \in Workers, o \in Outcomes : WorkerDone(w, o)
    \/ \E w \in Workers : WorkerGetTimesOut(w)
    \/ ShutdownClose
    \/ ShutdownQueueJoin
    \/ ShutdownStop
    \/ ShutdownPoolJoin
    \/ ShutdownPoolJoinRaises
    \/ ShutdownRelease

InitShutdown ==
    /\ ShutdownInit
    /\ now = 0
    /\ BreakerInit
    /\ LimiterIdle
    /\ DlqIdle
    /\ RouterInit
    /\ DispatchInit
    /\ PoolIdle
    /\ LockInit
    /\ PqIdle

SpecShutdown == InitShutdown /\ [][ShutdownNext]_vars

\* ------------------------------- WorkerPool / WorkerPoolManager life cycle
PoolClasses == {"WorkerPool", "WorkerPoolManager"}

\* WorkerPool.start, lines 199-200: if self._started.is_set(): return.
\* WorkerPoolManager.start has no such test.
StartReturnsEarly == pool_class = "WorkerPool" /\ pstarted

\* Worker(worker_config): _middleware = list(config.middleware), _stop clear
NewWorker == [middleware |-> pool_middleware, stop |-> FALSE]

PoolInit ==
    /\ pool_class \in PoolClasses
    /\ pool_size \in 0..MaxPoolSize
    /\ pool_middleware = <<>>
    /\ middleware_ids = {}
    /\ pool_workers = <<>>
    /\ pool_tasks = 0
    /\ pstarted = FALSE
    /\ nstarts = 0

\* start(): pool_size new workers, one task each, _started set
PoolStart ==
    /\ nstarts < MaxStarts
    /\ nstarts' = nstarts + 1
    /\ IF StartReturnsEarly
       THEN UNCHANGED <<pool_workers, pool_tasks, pstarted>>
       ELSE /\ pool_workers' = pool_workers \o [i \in 1..pool_size |-> NewWorker]
            /\ pool_tasks' = pool_tasks + pool_size
            /\ pstarted' = TRUE
    /\ UNCHANGED <<pool_class, pool_size, pool_middleware, middleware_ids>>
    /\ UNCHANGED <<now, notPool>>

\* register_middleware(m): a callable registered before is skipped, a new one
\* is appended to the pool's list and to the list of every worker
PoolRegisterMiddleware(m) ==
    /\ IF m \in middleware_ids
       THEN UNCHANGED <<pool_middleware, middleware_ids, pool_workers>>
       ELSE /\ pool_middleware' = Append(pool_middleware, m)
            /\ middleware_ids' = middleware_ids \cup {m}
            /\ pool_workers' = [i \in DOMAIN pool_workers |->
                   [pool_workers[i] EXCEPT !.middleware = Append(@, m)]]
    /\ UNCHANGED <<pool_class, pool_size, pool_tasks, pstarted, nstarts>>
    /\ UNCHANGED <<now, notPool>>

\* stop(): Worker.stop() on every worker of _workers
PoolStop ==
    /\ pool_workers' = [i \in DOMAIN pool_workers |->
                           [pool_workers[i] EXCEPT !.stop = TRUE]]
    /\ UNCHANGED <<pool_class, pool_size, pool_middleware, middleware_ids,
                   pool_tasks, pstarted, nstarts>>
    /\ UNCHANGED <<now, notPool>>

PoolNext ==
    \/ PoolStart
    \/ \E m \in MiddlewareIds : PoolRegisterMiddleware(m)
    \/ PoolStop

InitPool ==
    /\ ListenerIdle
    /\ now = 0
    /\ BreakerInit
    /\ LimiterIdle
    /\ DlqIdle
    /\ RouterInit
    /\ DispatchInit
    /\ ShutdownIdle
    /\ PoolInit
    /\ LockInit
    /\ PqIdle

SpecPool == InitPool /\ [][PoolNext]_vars

\* ------------------------------------------------- lock_manager.py model
\* lock(), lines 23-39, runs without a suspension point: the manager lock is
\* never held across an await, so `async with self._manager_lock` never waits.

\* an acquire() that takes the lock whenever it is not locked, waiters or not
CanAcquireBarging(r) == ~res_locked[r]

\* asyncio.Lock.acquire: the lock is taken at once when it is not locked and
\* no task waits for it
CanAcquireNow(r) == ~res_locked[r] /\ res_waiters[r] = <<>>

\* an exit that removes the holder entry only when the body returned
HoldersAfterExitOnReturn(h, r, how) ==
    IF how = "return" THEN [h EXCEPT ![r] = 0] ELSE h

\* lock(), lines 42-45: finally: del self._holders[resource_id]
HoldersAfterExit(h, r, how) == [h EXCEPT ![r] = 0]

Inside(t, r) == r \in Range(held[t])

RemoveFrom(q, t) == SelectSeq(q, LAMBDA x : x /= t)

\* lock(r), lines 23-41: the re-entry warning, the lazily created lock, and
\* resource_lock.acquire(): the scope is entered at once or the task waits
LockCall(t, r) ==
    /\ kpc[t] = "run"
    /\ Len(held[t]) < MaxNesting
    /\ warned' = IF holders[r] = t THEN warned \cup {t} ELSE warned
    /\ locks' = IF locks[r] = 0 THEN [locks EXCEPT ![r] = 1] ELSE locks
    /\ IF CanAcquireNow(r)
       THEN /\ res_locked' = [res_locked EXCEPT ![r] = TRUE]
            /\ holders' = [holders EXCEPT ![r] = t]
            /\ held' = [held EXCEPT ![t] = Append(@, r)]
            /\ UNCHANGED <<res_waiters, kpc, want>>
       ELSE /\ res_waiters' = [res_waiters EXCEPT ![r] = Append(@, t)]
            /\ kpc' = [kpc EXCEPT ![t] = "wait"]
            /\ want' = [want EXCEPT ![t] = r]
            /\ UNCHANGED <<res_locked, holders, held>>
    /\ UNCHANGED <<res_woken, handed, exitedByRaise, keyErrors>>
    /\ UNCHANGED <<now, notLock>>

\* asyncio.Lock.acquire after `await fut`: the woken waiter takes the lock and
\* enters the scope (line 41)
WaiterResumes(t) ==
    /\ kpc[t] = "wait"
    /\ res_woken[want[t]]
    /\ Head(res_waiters[want[t]]) = t
    /\ res_waiters' = [res_waiters EXCEPT ![want[t]] = Tail(@)]
    /\ res_woken' = [res_woken EXCEPT ![want[t]] = FALSE]
    /\ res_locked' = [res_locked EXCEPT ![want[t]] = TRUE]
    /\ holders' = [holders EXCEPT ![want[t]] = t]
    /\ held' = [held EXCEPT ![t] = Append(@, want[t])]
    /\ kpc' = [kpc EXCEPT ![t] = "run"]
    /\ want' = [want EXCEPT ![t] = 0]
    /\ handed' = handed \cup {t}
    /\ UNCHANGED <<locks, warned, exitedByRaise, keyErrors>>
    /\ UNCHANGED <<now, notLock>>

\* the waiting task is cancelled (for instance by a timeout around lock()):
\* acquire() removes its future and, when the lock is free, wakes the next one
WaiterCancelled(t) ==
    /\ kpc[t] = "wait"
    /\ res_waiters' = [res_waiters EXCEPT ![want[t]] = RemoveFrom(@, t)]
    /\ res_woken' = [res_woken EXCEPT ![want[t]] =
                        IF @ /\ Head(res_waiters[want[t]]) = t
                        THEN ~res_locked[want[t]] /\ Tail(res_waiters[want[t]]) /= <<>>
                        ELSE @]
    /\ kpc' = [kpc EXCEPT ![t] = "run"]
    /\ want' = [want EXCEPT ![t] = 0]
    /\ UNCHANGED <<locks, res_locked, holders, held, handed, warned,
                   exitedByRaise, keyErrors>>
    /\ UNCHANGED <<now, notLock>>

\* lock(), lines 42-45 and the end of `async with resource_lock`: the body of
\* the innermost scope of t returns or raises; the holder entry is deleted and
\* the lock released, which wakes the first waiter
LockExit(t, how) ==
    /\ kpc[t] = "run"
    /\ held[t] /= <<>>
    /\ LET r == Last(held[t]) IN
        /\ keyErrors' = (keyErrors \/ holders[r] = 0)
        /\ holders' = HoldersAfterExit(holders, r, how)
        /\ res_locked' = [res_locked EXCEPT ![r] = FALSE]
        /\ res_woken' = [res_woken EXCEPT ![r] = res_waiters[r] /= <<>>]
        /\ exitedByRaise' = IF how = "raise" THEN exitedByRaise \cup {r}
                             ELSE exitedByRaise
    /\ held' = [held EXCEPT ![t] = SubSeq(@, 1, Len(@) - 1)]
    /\ UNCHANGED <<locks, res_waiters, kpc, want, handed, warned>>
    /\ UNCHANGED <<now, notLock>>

LockNext ==
    \/ \E t \in LockTasks, r \in Resources : LockCall(t, r)
    \/ \E t \in LockTasks : WaiterResumes(t)
    \/ \E t \in LockTasks : WaiterCancelled(t)
    \/ \E t \in LockTasks, how \in {"return", "raise"} : LockExit(t, how)

InitLock ==
    /\ ListenerIdle
    /\ now = 0
    /\ BreakerInit
    /\ LimiterIdle
    /\ DlqIdle
    /\ RouterInit
    /\ DispatchInit
    /\ ShutdownIdle
    /\ PoolIdle
    /\ LockInit
    /\ PqIdle

SpecLock == InitLock /\ [][LockNext]_vars

\* ------------------------------------------------------------------ claims
Processing == {w \in Workers : wpc[w] = "proc"}

\* C1: under FAIL_FAST the queue never holds more than queue_size items, and a
\* frame whose put timed out is never enqueued and is handed to the DLQ exactly
\* once (never, when no DLQ is configured), where it is stored once unless that
\* send raised; with capacity 1, no consumer and 3 frames, frame 1 is queued
\* and frames 2 and 3 are in the DLQ.
C1_FailFastOverflow ==
    policy = "FAIL_FAST" =>
        /\ Len(queue) <= queue_size
        /\ \A f \in timedOut :
              /\ f \notin enq
              /\ Count(dlqCalls, f) =
                    IF hasDLQ /\ ~(cur = f /\ lpc = "dlq") THEN 1 ELSE 0
              /\ Count(dlq, f) =
                    IF /\ hasDLQ /\ ~(cur = f /\ lpc = "dlq")
                       /\ ~(lerr = "dlq" /\ Last(dlqCalls) = f)
                    THEN 1 ELSE 0
        /\ ( /\ queue_size = 1 /\ hasDLQ /\ nrecv = 3 /\ cur = 0
             /\ taken = <<>> /\ failedPut = {} /\ lerr /= "dlq" )
           => (queue = <<1>> /\ dlqCalls = <<2, 3>> /\ dlq = <<2, 3>>)

C1_Witness ==
    /\ policy = "FAIL_FAST" /\ queue_size = 1 /\ hasDLQ
    /\ nrecv = 3 /\ lpc = "done" /\ taken = <<>>
    /\ timedOut = {2, 3} /\ queue = <<1>> /\ dlq = <<2, 3>>

\* C2: under DROP_OLDEST, when the put of a frame times out on a full queue,
\* the listener finishes that frame with the frame as the newest queued item.
C2_NewestKept ==
    [][ ( /\ policy = "DROP_OLDEST" /\ lpc = "wait" /\ attempt = 1
          /\ Full(queue) /\ cur \notin timedOut /\ cur \in timedOut' )
        => (lpc' = "recv" /\ queue' /= <<>> /\ Last(queue') = cur) ]_vars

C2_Witness ==
    /\ policy = "DROP_OLDEST" /\ lpc = "recv" /\ queue /= <<>>
    /\ Last(queue) \in timedOut /\ Len(queue) = queue_size
    /\ Cardinality(evicted) >= 2

\* C3: frames enter the queue in transport order and leave it in that order:
\* the frames consumers dequeued, followed by the frames still queued, are in
\* increasing transport order, under both policies.
C3_FifoOrder == Increasing(taken \o queue)

C3_Witness ==
    /\ Len(taken) >= 2 /\ queue /= <<>> /\ \A w \in Workers : wpc[w] = "proc"

\* C4: every frame removed from the queue (by a worker or by eviction) gets
\* exactly one task_done, no other frame gets one, the unfinished count is the
\* queued items plus the items being processed, and join() can return only
\* when no item is queued or being processed.
C4_AckedOnce ==
    /\ unfinished = Len(queue) + Cardinality(Processing)
    /\ \A f \in Frames :
          acks[f] = IF \/ f \in evicted
                       \/ (f \in Range(taken) /\ \A w \in Workers : witem[w] /= f)
                    THEN 1 ELSE 0
    /\ JoinReturns => (queue = <<>> /\ Processing = {})

C4_Witness ==
    /\ evicted /= {} /\ Processing /= {}
    /\ \E w \in Workers : wpc[w] = "crashed"
    /\ \E f \in Range(taken) : acks[f] = 1

\* C5: no single message stops a worker: after any item, whatever went wrong
\* with it, every worker is still polling or processing.
C5_WorkersSurvive == \A w \in Workers : wpc[w] \in {"poll", "proc"}

\* C6: listen() ends only when the transport's stream ends or the transport
\* fails fatally: nothing else makes it raise.
C6_ListenSurvivesFrameErrors == lpc = "raised" => lerr = "transport"

C8_OnlyTrialAdmitted == alsoAdmitted = {}

\* C9: the four counters are zero right after every state transition.
C9_CountersZeroAfterTransition == snap = ZeroCounters

\* C10: acquire() never grants more than rate_limit permits within a window of
\* length Period: the (k + rate_limit)-th grant is at least Period after the
\* k-th, so with rate_limit 1 two grants are at least Period apart.
C10_WindowLimit ==
    /\ \A k \in DOMAIN grants :
          k + rate_limit <= Len(grants)
          => grants[k + rate_limit] - grants[k] >= Period
    /\ \A i \in DOMAIN grants :
          Cardinality({j \in DOMAIN grants :
                          grants[j] > grants[i] - Period /\ grants[j] <= grants[i]})
             <= rate_limit

C10_Witness ==
    /\ rate_limit = 1 /\ Len(grants) = 2
    /\ grants[1] = 0 /\ grants[2] = grants[1] + Period
    /\ rcalls = 2

\* every send() and replay() has returned
DlqQuiet == ppc \in {"idle", "done"} /\ spc = "idle"

\* a replay() has returned and no send() appended since it read the store
ReplayAlone == ppc = "done" /\ ~touched

NoneDue == \A i \in DOMAIN messages : ~Due(messages[i], current_time)

NoneExhausted == \A i \in DOMAIN messages : ~Exhausted(messages[i])

\* C11 (as stated): a replay() that finds no entry due returns [] and leaves
\* the stored entries, hence their number, as they were.
C11_NoReadyLeavesStore ==
    (ReplayAlone /\ NoneDue) => (result = <<>> /\ storage = messages)

\* C11 (amended): a replay() that finds no entry due and no entry at
\* retry_count >= max_retries returns [] and leaves every entry it read in the
\* store with its payload, retry_count and next_retry_at; when no send()
\* appended during it, the store is as it was, the same entries in the same
\* order, and the backlog gauge is at their number. An entry at
\* retry_count >= max_retries is removed by that replay() even when not due.
C11_PendingUntouched ==
    /\ (ppc = "done" /\ NoneDue /\ NoneExhausted) =>
           /\ result = <<>>
           /\ \A i \in DOMAIN messages : \E j \in DOMAIN storage :
                  storage[j] = messages[i]
    /\ (ReplayAlone /\ NoneDue /\ NoneExhausted) =>
           /\ storage = messages
           /\ messages /= <<>> => gauge = Len(messages)
    /\ (ReplayAlone /\ NoneDue) =>
           /\ result = <<>>
           /\ storage = SelectSeq(messages, LAMBDA e : ~Exhausted(e))

C11_Witness ==
    /\ ReplayAlone /\ NoneDue /\ NoneExhausted
    /\ Len(messages) >= 2
    /\ \E i \in DOMAIN messages : messages[i].retry_count > 0
    /\ storage = messages

\* C12: no entry appended by send() is lost to an overlapping replay(): once
\* both have returned, the entry is in the store or was returned or discarded
\* by a replay().
C12_NoEntryLost ==
    DlqQuiet =>
        \A m \in 1..nsent :
            m \in MessagesOf(storage) \cup returned \cup discarded

\* C13: after every completed send() and replay(), overlapping ones included,
\* the backlog gauge equals the number of stored entries.
C13_GaugeMatchesStore == DlqQuiet => gauge = Len(storage)

\* a selection was made on an index compiled from every registration
Selected == started /\ text /= <<>> /\ ~late

IsSensitive(t) == cmds[commands[t]].case_sensitive

\* the registered literal triggers of a case class that match the text
MatchingInsensitive ==
    {t \in DOMAIN commands : ~IsSensitive(t) /\ StartsWith(Fold(text), Fold(t))}

MatchingSensitive ==
    {t \in DOMAIN commands : IsSensitive(t) /\ StartsWith(text, t)}

MatchingRegex ==
    {i \in DOMAIN regex_commands : Search(regex_commands[i].pattern, text)}

LiteralPick(S) == selected.trigger \in S /\ selected.command = commands[selected.trigger]

C15_FirstRegisteredWins ==
    Selected =>
        /\ selected.trigger \in MatchingInsensitive =>
               \A t \in MatchingInsensitive : selected.command <= commands[t]
        /\ (MatchingInsensitive = {} /\ selected.trigger \in MatchingSensitive) =>
               \A t \in MatchingSensitive : selected.command <= commands[t]
        /\ (MatchingInsensitive = {} /\ MatchingSensitive = {}) =>
               \A i \in MatchingRegex :
                   selected.command <= regex_commands[i].command

\* the registrations of the scenario: a case-sensitive "P", then a
\* case-insensitive "p"
PingScenario ==
    /\ Selected
    /\ cmds = <<[case_sensitive |-> TRUE, regex |-> FALSE, trigger |-> <<80>>],
                [case_sensitive |-> FALSE, regex |-> FALSE, trigger |-> <<112>>]>>

\* C16: with a case-sensitive "P" registered before a case-insensitive "p", a
\* text starting with "P" selects the first command with trigger "P" and a
\* text starting with "p" selects the second with trigger "p".
C16_OrderAndCase ==
    PingScenario =>
        /\ Head(text) = 80 => selected = [command |-> 1, trigger |-> <<80>>]
        /\ Head(text) = 112 => selected = [command |-> 2, trigger |-> <<112>>]

\* the sender of the message may use the matched command
SenderAllowed == command.whitelisted = {} \/ source \in command.whitelisted

\* C17: middleware and handler run for a message only if the whitelist of the
\* command is empty or holds the sender; a message of any other sender ends
\* process() without an exception, with nothing run and nothing sent to the
\* DLQ.
C17_WhitelistGate ==
    /\ (xpc /= "idle" \/ entered /= <<>> \/ handlerRuns > 0) => SenderAllowed
    /\ (xpc = "idle" /\ ndispatched > 0 /\ command.matched /\ ~SenderAllowed) =>
           /\ outcome \in {"no_text", "not_whitelisted"}
           /\ entered = <<>> /\ handlerRuns = 0
           /\ storage = <<>> /\ dlqCalls = <<>>

C17_Witness ==
    /\ outcome = "not_whitelisted"
    /\ command.whitelisted /= {} /\ source \notin command.whitelisted
    /\ command.handle
    /\ middleware /= <<>>

\* C18: the middleware of a dispatch are entered in registration order, each
\* one after the first only once the one before it has called next; the
\* handler runs once, after every registered middleware was entered and called
\* next; after a middleware returned without calling next no later middleware
\* and no handler run.
C18_ChainOrder ==
    /\ Len(entered) <= Len(middleware)
    /\ \A i \in DOMAIN entered :
           /\ entered[i] = middleware[i]
           /\ i > 1 => entered[i - 1] \in calledNext
    /\ handlerRuns > 0 =>
           /\ handlerRuns = 1
           /\ entered = handlerSaw
           /\ Range(handlerSaw) \subseteq calledNext
    /\ shortCircuit /= 0 =>
           /\ Last(entered) = shortCircuit
           /\ handlerRuns = 0

C18_Witness ==
    /\ outcome = "ok" /\ handlerRuns = 1
    /\ Len(entered) >= 2

\* the conversation (envelope source / group) a frame belongs to: frames 1 and
\* 2 are of one conversation, frames 3 and 4 of the next, and so on
Conversation(f) == (f + 1) \div 2

\* C19: two frames of the same conversation are never handled at the same
\* time: no two workers are inside process_messages' body (parse, process,
\* handler) with frames of one conversation.
C19_ConversationSerial ==
    \A w1, w2 \in Workers :
        (w1 /= w2 /\ wpc[w1] = "proc" /\ wpc[w2] = "proc")
            => Conversation(witem[w1]) /= Conversation(witem[w2])

\* the steps of shutdown() in the order of the claim
ShutdownOrder == <<"close", "drain", "stop", "await_workers", "release">>

\* C20: shutdown() performs its steps in the order close, drain, stop, await
\* the workers, release; and once it has completed, no frame is left on the
\* dispatch queue and none is unacknowledged.
C20_ShutdownDrains ==
    /\ steps = SubSeq(ShutdownOrder, 1, Len(steps))
    /\ sdpc = "done" => (queue = <<>> /\ unfinished = 0)

\* C21: after stop() every worker ends its loop, and join() returns: it does
\* not raise, and when it has ended every worker task has ended its loop.
C21_StopThenJoinReturns ==
    /\ sdpc /= "raised"
    /\ sdpc \in {"release", "done"} =>
           \A w \in Workers : wpc[w] \in {"exited", "absent"}

\* C22: start() is idempotent: once the pool is started it has exactly
\* pool_size workers and exactly pool_size worker tasks, however many times
\* start() was called.
C22_StartIdempotent ==
    pstarted => (Len(pool_workers) = pool_size /\ pool_tasks = pool_size)

\* some registered command has a trigger matching the text
SomeCommandMatches ==
    MatchingInsensitive /= {} \/ MatchingSensitive /= {} \/ MatchingRegex /= {}

\* every worker's middleware list is the pool's list, each middleware once
MiddlewareRetrofitted ==
    /\ \A i \in DOMAIN pool_workers : pool_workers[i].middleware = pool_middleware
    /\ \A i, j \in DOMAIN pool_middleware :
           pool_middleware[i] = pool_middleware[j] => i = j

\* C23: commands registered after start() are matched by the running
\* workers: every selection made once the pool is started, whenever the
\* commands were registered, returns a command if some registered command
\* matches the text (and every worker's middleware list is the pool's list).
C23_LateCommandsMatched ==
    [][(started /\ started' /\ cmds' = cmds /\ commands' = commands)
          => /\ SomeCommandMatches' => selected'.command /= 0
             /\ MiddlewareRetrofitted']_vars

InScope(r) == {t \in LockTasks : Inside(t, r)}

\* C24: at most one task is inside the scope of a resource, one lock object at
\* most exists per resource, and a task that waited for the resource entered
\* only when no other task was inside.
C24_OneTaskPerResource ==
    \A r \in Resources :
        /\ Cardinality(InScope(r)) <= 1
        /\ \A t \in LockTasks : Count(held[t], r) <= 1
        /\ locks[r] <= 1
        /\ locks[r] = 0 => (InScope(r) = {} /\ res_waiters[r] = <<>>)

C24_Witness ==
    \E r \in Resources, t \in handed :
        /\ Inside(t, r)
        /\ res_waiters[r] /= <<>>

\* C25: the holder entry of a resource names a task exactly while that task
\* is inside its scope, and the lock is locked exactly then: once the body
\* has returned or raised, the entry is gone and the lock is free for the
\* next task; deleting the entry never fails.
C25_ReleasedOnExit ==
    /\ ~keyErrors
    /\ \A r \in Resources :
           /\ \A t \in LockTasks : holders[r] = t <=> Inside(t, r)
           /\ res_locked[r] <=> InScope(r) /= {}

C25_Witness ==
    \E r \in exitedByRaise : holders[r] /= 0 /\ holders[r] \in handed

PlacesOf(msgs, m) == {j \in DOMAIN msgs : msgs[j].message = m}

Leaves(c) == cpc[c] = "in" /\ cpc'[c] = "idle"

\* the trip condition as stated, on the counters before the failure is counted
StatedTripCondition ==
    \/ cb.state = "HALF_OPEN"
    \/ cb.consecutive_failures + 1 >= FailureThreshold
    \/ /\ cb.requests >= MinRequestsForRateCalc
       /\ (cb.failures + 1) * RateDen >= RateNum * cb.requests

\* C28: a failing call trips the endpoint (state OPEN, last_failure_time
\* stamped, counters zeroed) exactly when the state was HALF_OPEN, or
\* consecutive_failures counting this failure reaches failure_threshold, or
\* requests >= min_requests_for_rate_calc and failures / requests reaches the
\* rate threshold; otherwise it only counts the failure. A successful call
\* leaves consecutive_failures at 0. The failing caller gets the exception of
\* its body in both cases.
C28_TripIffCondition ==
    [][\A c \in Callers : Leaves(c) =>
          /\ ev'.kind = "fail" =>
                /\ ev'.raised = "original"
                /\ IF StatedTripCondition
                   THEN cb' = [state |-> "OPEN", last_failure_time |-> now,
                               failures |-> 0, consecutive_failures |-> 0,
                               successes |-> 0, requests |-> 0]
                   ELSE cb' = [cb EXCEPT !.failures = @ + 1,
                                         !.consecutive_failures = @ + 1]
          /\ ev'.kind = "ok" => cb'.consecutive_failures = 0]_vars

\* a failure tripped a CLOSED endpoint on the failure rate alone
C28_Witness ==
    /\ ev.kind = "fail" /\ ev.raised = "original" /\ ev.pre = "CLOSED"
    /\ cb.state = "OPEN" /\ cb.failures = 0 /\ tripTime = now
    /\ streak < FailureThreshold

\* C29: a call to guard on an OPEN endpoint is rejected exactly when less than
\* reset_timeout has passed since last_failure_time, and is admitted as the
\* HALF_OPEN trial when reset_timeout or more has passed, the exact boundary
\* included; a rejected call leaves the counters as they were.
C29_CooldownBoundary ==
    [][(ev' /= ev /\ ev'.kind \in {"admit", "reject"} /\ cb.state = "OPEN") =>
          LET elapsed == now - cb.last_failure_time IN
          /\ ev'.kind = "reject" <=> elapsed < ResetTimeout
          /\ elapsed >= ResetTimeout =>
                (ev'.kind = "admit" /\ ev'.wasTrial /\ cb'.state = "HALF_OPEN")
          /\ ev'.kind = "reject" => Counters(cb') = Counters(cb)]_vars

\* the first put of the current frame times out in this step
FirstPutTimesOut == lpc = "wait" /\ attempt = 1 /\ cur \notin timedOut /\ cur \in timedOut'

\* C30: under DROP_OLDEST, the step that handles a timed-out put evicts exactly
\* one item, the oldest queued, and retries the put; a frame whose put timed
\* out goes on to the DLQ only from the retried put timing out; and no
\* evicted item is handed to the DLQ.
C30_EvictRetryThenDlq ==
    [][policy = "DROP_OLDEST" =>
          /\ FirstPutTimesOut =>
                /\ queue /= <<>>
                /\ evicted' = evicted \cup {Head(queue)}
                /\ Head(queue) \notin evicted
                /\ \/ lpc' = "wait" /\ attempt' = 2 /\ queue' = Tail(queue)
                   \/ lpc' = "recv" /\ queue' = Append(Tail(queue), cur)
          /\ (lpc /= "dlq" /\ lpc' = "dlq" /\ cur \in timedOut') =>
                (lpc = "wait" /\ attempt = 2)
          /\ dlqCalls' /= dlqCalls => dlqCalls'[Len(dlqCalls')] \notin evicted']_vars

\* a send() call is made in this step
SendCalled == sent' /= sent /\ sent'.raised /= "idle"

\* the delay as stated: min(base * 2^retry_count, max_backoff)
StatedDelay(retry_count) == Min2(base_backoff * (2 ^ retry_count), MaxBackoff)

\* the delay with the constructor's clamps: base is max(0, base_backoff_seconds)
\* and the cap is max(base, max_backoff_seconds)
ClampedDelay(retry_count) ==
    LET base == Max2(0, base_backoff)
    IN  Min2(base * (2 ^ retry_count), Max2(base, MaxBackoff))

\* what a send() call does, for a given delay and cap: a negative retry_count
\* raises and stores nothing; otherwise one entry is appended, with the given
\* retry_count, and with the given next_retry_at or else now + delay, the delay
\* being at most the cap and not decreasing with retry_count
SendStores(Delay(_), cap) ==
    IF sent'.retry_count < 0
    THEN sent'.raised = "ValueError" /\ storage' = storage
    ELSE /\ sent'.raised = "none"
         /\ storage' = Append(storage,
                [message |-> nsent + 1, retry_count |-> sent'.retry_count,
                 next_retry_at |-> IF sent'.next_retry_at /= NoRetryAt
                                   THEN sent'.next_retry_at
                                   ELSE now + Delay(sent'.retry_count)])
         /\ Delay(sent'.retry_count) <= cap
         /\ \A r \in 0..sent'.retry_count : Delay(r) <= Delay(sent'.retry_count)

\* C31 (as stated): send() without next_retry_at schedules the entry at
\* now + min(base_backoff * 2^retry_count, max_backoff), a delay that is at
\* most max_backoff and does not decrease with retry_count; explicit
\* arguments are stored unchanged; a negative retry_count raises and stores
\* nothing.
C31_BackoffAsStated == [][SendCalled => SendStores(StatedDelay, MaxBackoff)]_vars

\* C31 (amended): the same with base_backoff taken as max(0, base_backoff)
\* and max_backoff as max(that base, max_backoff): the delay is at most the
\* larger of the two.
C31_BackoffClamped ==
    [][SendCalled => SendStores(ClampedDelay, Max2(Max2(0, base_backoff), MaxBackoff))]_vars

C31_Witness ==
    /\ sent.raised = "none" /\ sent.next_retry_at = NoRetryAt /\ sent.retry_count > 0
    /\ base_backoff > MaxBackoff
    /\ storage /= <<>>
    /\ storage[Len(storage)].next_retry_at = now + base_backoff

\* C32: every acquire() call returns, with several callers at once: a caller
\* in acquire() (waiting for the lock, checking, or sleeping) is eventually
\* out of it; a permit goes only to the holder of the lock, and the lock
\* passes to the caller that has waited for it longest.
C32_EveryAcquireReturns ==
    /\ \A a \in Acquirers : (rpc[a] /= "idle") ~> (rpc[a] = "idle")
    /\ [][/\ grants' /= grants =>
                \E a \in Acquirers :
                    /\ lockHolder = a /\ rpc[a] = "check" /\ rpc'[a] = "idle"
                    /\ \A b \in Acquirers \ {a} : rpc'[b] = "idle" => rpc[b] = "idle"
          /\ (lockHolder' /= lockHolder /\ lockWaiters /= <<>>) =>
                lockHolder' = Head(lockWaiters)]_vars

C32_Witness ==
    /\ rate_limit = 1
    /\ \A a \in Acquirers : rpc[a] = "idle"
    /\ Len(grants) = MaxCalls
    /\ \A k \in 1..(MaxCalls - 1) : grants[k + 1] = grants[k] + Period
    /\ now > MaxTime

\* the last n entries of a list, all of it when it is shorter
Suffix(q, n) == IF Len(q) <= n THEN q ELSE SubSeq(q, Len(q) - n + 1, Len(q))

\* no append() is between its storage.append and its return
AppendsSettled == \A t \in PqTasks : pq_pc[t] \notin {"truncate", "restore"}

\* what append() leaves and replay() returns, for a given bound on the length
BoundedFifo(n) ==
    /\ AppendsSettled' =>
          /\ Len(pq_store') <= n
          /\ pq_store' = Suffix(pq_appended', n)
    /\ \A t \in PqTasks :
          (pq_pc[t] = "read" /\ pq_pc'[t] = "idle") =>
              (pq_result' = pq_store /\ pq_store' = pq_store)

\* C33 (as stated): after every append() the stored list has at most
\* max_length entries and is the most recently appended entries in append
\* order; replay() returns exactly the stored entries, in that order.
C33_BoundedFifoAsStated == [][BoundedFifo(pq_max_length)]_vars

\* C33 (amended): the same with the bound max(1, max_length).
C33_BoundedFifo == [][BoundedFifo(Max2(1, pq_max_length))]_vars

C33_Witness ==
    /\ \A t \in PqTasks : pq_pc[t] = "idle"
    /\ Len(pq_appended) > Max2(1, pq_max_length)
    /\ Len(pq_store) = Max2(1, pq_max_length)
    /\ Len(pq_store) >= 2
    /\ pq_result = pq_store

\* C34: a task that calls lock(r) while it is inside the scope of r is only
\* warned and goes on: it is never left waiting for r, which nobody but
\* itself could release, so its nested and its outer scope can both complete.
C34_SelfReentryCompletes ==
    \A t \in LockTasks :
        /\ kpc[t] = "wait" => ~Inside(t, want[t])
        /\ t \in warned => ~keyErrors

\* caller c is inside guard and was admitted before the latest trip: the
\* endpoint is OPEN (guard admits nobody while it stays OPEN), or it is
\* HALF_OPEN and c is neither the trial call nor a call admitted after it
AdmittedBeforeTrip(c) ==
    /\ cpc[c] = "in"
    /\ \/ cb.state = "OPEN"
       \/ cb.state = "HALF_OPEN" /\ c /= trial /\ c \notin alsoAdmitted

\* C35: when a guarded call that was admitted before a trip completes after
\* it, the state of the endpoint and its last_failure_time stay as they are:
\* the cooldown of an OPEN endpoint is not restarted, and a HALF_OPEN endpoint
\* is neither closed nor re-opened by that call.
C35_LateCallInert ==
    [][\A c \in Callers :
           AdmittedBeforeTrip(c) /\ cpc'[c] = "idle"
           => /\ cb'.state = cb.state
              /\ cb'.last_failure_time = cb.last_failure_time]_vars

\* C36: in every reachable state, overlapping guarded calls included,
\* failures + successes <= requests and consecutive_failures <= failures, so
\* the rate failures / requests is at most 1, and the trip condition never
\* divides by requests = 0.
C36_CountersConsistent ==
    /\ cb.failures + cb.successes <= cb.requests
    /\ cb.consecutive_failures <= cb.failures
    /\ ev.raised /= "ZeroDivisionError"

\* the entries the failed replay() had read that are not in storage any more
\* (a call that raises hands nothing to its caller); entries past max_retries
\* are dropped by every replay() and do not count
LostByFailedReplay ==
    {i \in DOMAIN messages :
        /\ ~Exhausted(messages[i])
        /\ \A j \in DOMAIN storage : storage[j].message /= messages[i].message}

\* C37: after a replay() that raised on a storage failure, every entry that
\* was in the DLQ before the call is still in storage or was handed to the
\* caller.
C37_FailedReplayLosesNothing == ppc = "raised" => LostByFailedReplay = {}

\* C38: with a caller that re-sends every ready entry with the retry_count
\* replay() returned, a payload is returned as ready at most max_retries
\* times: each stored entry of it carries at least as many retries as it was
\* returned, so after the last return the next replay() discards it, and a
\* discarded payload is neither stored nor re-sent again.
C38_BoundedRetries ==
    /\ \A p \in Payloads : ready_count[p] <= MaxRetries
    /\ \A i \in DOMAIN storage : storage[i].retry_count >= ready_count[storage[i].message]
    /\ \A p \in discarded :
           /\ p \notin MessagesOf(storage)
           /\ \A e \in to_resend : e.message /= p

C38_Witness ==
    \E p \in discarded :
        /\ MaxRetries > 0
        /\ ready_count[p] = MaxRetries
        /\ ppc = "done"

\* some task can still call task_done: a worker that is running its loop, or
\* the listener, whose put timeout evicts the oldest item under DROP_OLDEST
SomeoneCanAck ==
    \/ \E w \in Workers : wpc[w] \in {"poll", "proc"}
    \/ lpc \notin {"done", "raised"}

\* C39: shutdown() always terminates: it is never left in queue.join() with
\* items unacknowledged and no task that could acknowledge them, be it that
\* the pool has no worker (pool_size 0, never started) or that its worker
\* tasks have ended.
C39_ShutdownTerminates == sdpc = "join" => SomeoneCanAck

\* C40: the middleware entered by a dispatch are those of the list that was
\* registered when the dispatch started, in that order: a middleware
\* registered while the chain is running is not applied to the message in
\* flight.
C40_ChainFixedAtStart ==
    /\ Len(entered) <= Len(chain)
    /\ \A i \in DOMAIN entered : entered[i] = chain[i]

====
